---- MODULE Spec2Model ----
(***************************************************************************)
(* CodeAgentX: the completion client (services/geminiService.ts) with its  *)
(* retry/backoff loop and request construction, the response parser, the   *)
(* debug-mode repair orchestration of App.tsx (handleSend), the handlers   *)
(* of a session running side by side, and the dependency graph             *)
(* (services/dependencyService.ts).                                        *)
(*                                                                         *)
(* Four specifications share the variables: SpecClient follows one call of *)
(* sendMessageToGemini, Spec one handleSend at a time with the client in   *)
(* detail, SpecSession several handlers in progress with each call         *)
(* resolving in one step, SpecGraph the graph of a corpus.                 *)
(*                                                                         *)
(* Strings are modelled as sequences of atoms (indivisible pieces of       *)
(* text): "<thinking>", "429", a digit, a blank, a word.  The string       *)
(* operations of the code (includes, trim, replace, match, parseInt,       *)
(* parseFloat) are operators over such sequences.                           *)
(***************************************************************************)
EXTENDS Integers, Sequences, FiniteSets, TLC

VARIABLES
    cpc,            \* sendMessageToGemini: "idle" | "attempting" | "waiting" | "returned"
    retries,        \* sendMessageToGemini: let retries
    log,            \* sendMessageToGemini: the backend attempts and waits of the call, in order
    lastOutcome,    \* what the latest generateContent call resolved or rejected with
    result,         \* the string sendMessageToGemini returned
    input,          \* App: the text in the input box
    agentMode,      \* App: "FAST" | "ARCHITECT" | "DEBUG"
    thinkingBudget, \* App: the selected reasoning budget
    agentState,     \* App: agentState.status
    messages,       \* App: the transcript
    files,          \* App: the file corpus
    now,            \* Date.now()
    hpc,            \* handleSend: "idle", or the call it awaits: "draft" | "verify" | "refine" | "standard"
    loc,            \* handleSend: the values of its closure and locals
    calls,          \* the sendMessageToGemini calls of the latest handleSend, in order
    requests,       \* the number of handleSend invocations so far
    graphData,      \* App: the value of useMemo(() => generateDependencyGraph(files), [files])
    graphDeps,      \* App: the `files` value graphData was computed for
    tasks,          \* the handlers suspended at an await, when several can be in progress
    github,         \* api.github.com: the git objects and the branch head of the repository
    modal           \* GithubModal: its state and the position of its commitToGithub call

clientVars == <<cpc, retries, log, lastOutcome, result>>

uiVars == <<input, agentMode, thinkingBudget>>

sendVars == <<hpc, loc, calls, requests>>

sessionVars == <<graphData, graphDeps, tasks>>

commitVars == <<github, modal>>

appVars == <<input, agentMode, thinkingBudget, agentState, messages, files, now, hpc, loc,
             calls, requests, graphData, graphDeps, tasks, github, modal>>

vars == <<cpc, retries, log, lastOutcome, result, input, agentMode, thinkingBudget, agentState,
          messages, files, now, hpc, loc, calls, requests, graphData, graphDeps, tasks,
          github, modal>>

\* the branch head before any commit of the session
InitialHead == <<"commit", <<"tree", <<>>, <<>>>>, <<>>>>

\* the repository before any commit of the session
InitialRemote == [ref |-> InitialHead, blobs |-> {}, trees |-> {}, commits |-> {}, inflight |-> {}]

\* GithubModal after mount: status 'idle', no message, no call in progress
ClosedModal ==
    [status |-> "idle", errorMessage |-> <<>>, successUrl |-> <<>>, pc |-> "idle", call |-> 0,
     files |-> <<>>, branch |-> "", lastCommitSha |-> <<>>, created |-> {}, treeSha |-> <<>>,
     commitSha |-> <<>>]

----------------------------------------------------------------------------
(* String helpers (JavaScript String.prototype)                            *)

Whitespace == {" ", "\n"}

Digits == {"0", "1", "2", "3", "4", "5", "6", "7", "8", "9"}

DigitVal(d) ==
    CASE d = "0" -> 0 [] d = "1" -> 1 [] d = "2" -> 2 [] d = "3" -> 3
      [] d = "4" -> 4 [] d = "5" -> 5 [] d = "6" -> 6 [] d = "7" -> 7
      [] d = "8" -> 8 [] d = "9" -> 9

\* s.includes(needle)
Includes(s, needle) ==
    \E i \in 0..(Len(s) - Len(needle)) : SubSeq(s, i + 1, i + Len(needle)) = needle

\* s.trim()
Trim(s) ==
    LET keep == {i \in 1..Len(s) : s[i] \notin Whitespace}
    IN  IF keep = {} THEN <<>>
        ELSE LET lo == CHOOSE i \in keep : \A j \in keep : i <= j
                 hi == CHOOSE i \in keep : \A j \in keep : j <= i
             IN  SubSeq(s, lo, hi)

\* s.replace(a, ''): removes the first occurrence of the atom a
ReplaceFirst(s, a) ==
    LET hits == {i \in 1..Len(s) : s[i] = a}
    IN  IF hits = {} THEN s
        ELSE LET k == CHOOSE i \in hits : \A j \in hits : i <= j
             IN  SubSeq(s, 1, k - 1) \o SubSeq(s, k + 1, Len(s))

\* the longest prefix of s made of digits
LeadingDigits(s) ==
    LET n == CHOOSE k \in 0..Len(s) :
                 /\ \A i \in 1..k : s[i] \in Digits
                 /\ (k = Len(s) \/ s[k + 1] \notin Digits)
    IN  SubSeq(s, 1, n)

RECURSIVE DecimalValue(_)
DecimalValue(ds) ==
    IF ds = <<>> THEN 0
    ELSE DecimalValue(SubSeq(ds, 1, Len(ds) - 1)) * 10 + DigitVal(ds[Len(ds)])

NaN == [nan |-> TRUE, val |-> 0]

\* parseInt(s, 10): leading blanks skipped, optional sign, then the digit prefix
parseInt(s) ==
    LET first == {i \in 1..Len(s) : s[i] \notin Whitespace}
        t  == IF first = {} THEN <<>>
              ELSE SubSeq(s, CHOOSE i \in first : \A j \in first : i <= j, Len(s))
        neg == t # <<>> /\ t[1] = "-"
        u  == IF t # <<>> /\ t[1] \in {"-", "+"} THEN Tail(t) ELSE t
        ds == LeadingDigits(u)
    IN  IF ds = <<>> THEN NaN
        ELSE [nan |-> FALSE, val |-> IF neg THEN 0 - DecimalValue(ds) ELSE DecimalValue(ds)]

\* the milliseconds of the fraction digits fs (".5" -> 500, ".25" -> 250)
FracMillis(fs) ==
    LET d(i) == IF i <= Len(fs) THEN DigitVal(fs[i]) ELSE 0
    IN  d(1) * 100 + d(2) * 10 + d(3)

NoMatch == [found |-> FALSE, whole |-> <<>>, frac |-> <<>>]

\* message.match(/retry in (\d+(\.\d+)?)s/) at position i of message
MatchRetryInAt(message, i) ==
    IF message[i] # "retry in " THEN NoMatch
    ELSE LET rest  == SubSeq(message, i + 1, Len(message))
             whole == LeadingDigits(rest)
             after == SubSeq(rest, Len(whole) + 1, Len(rest))
             frac  == IF after # <<>> /\ after[1] = "." THEN LeadingDigits(Tail(after)) ELSE <<>>
             afterFrac == SubSeq(after, Len(frac) + 2, Len(after))
         IN  IF whole = <<>> THEN NoMatch
             ELSE IF frac # <<>> /\ afterFrac # <<>> /\ afterFrac[1] = "s"
                  THEN [found |-> TRUE, whole |-> whole, frac |-> frac]
             ELSE IF after # <<>> /\ after[1] = "s"
                  THEN [found |-> TRUE, whole |-> whole, frac |-> <<>>]
             ELSE NoMatch

\* the leftmost match of /retry in (\d+(\.\d+)?)s/ in message
MatchRetryIn(message) ==
    LET hits == {i \in 1..Len(message) : MatchRetryInAt(message, i).found}
    IN  IF hits = {} THEN NoMatch
        ELSE MatchRetryInAt(message, CHOOSE i \in hits : \A j \in hits : i <= j)

----------------------------------------------------------------------------
(* Backend errors.  An error payload has a status and a code (a number,    *)
(* written "429", a string such as "RESOURCE_EXHAUSTED", or "undefined"),  *)
(* a message, and details (Absent, or an array of detail objects).  The    *)
(* thrown value either is the payload or carries it in its `error` field.  *)

Undefined == "undefined"

Absent == <<[type |-> <<"absent">>, retryDelay |-> <<>>]>>

Payload(status, code, message, details, isError) ==
    [status |-> status, code |-> code, message |-> message,
     details |-> details, isError |-> isError]

Thrown(wrapped, payload) == [wrapped |-> wrapped, payload |-> payload]

RetryInfoType == <<"type.googleapis.com/google.rpc.", "RetryInfo">>

ErrorInfoType == <<"type.googleapis.com/google.rpc.", "ErrorInfo">>

Detail(type, retryDelay) == [type |-> type, retryDelay |-> retryDelay]

\* const actualError = error.error || error
ActualError(error) == error.payload

\* a mistaken getRetryDelay: the message pattern is tried before the RetryInfo detail
getRetryDelay_MessageFirst(error) ==
    LET actualError == ActualError(error)
        details == actualError.details
        found == IF details = Absent THEN {}
                 ELSE {i \in 1..Len(details) :
                          details[i].type # <<>> /\ Includes(details[i].type, <<"RetryInfo">>)}
        hasInfo == found # {}
        retryInfo == details[CHOOSE i \in found : \A j \in found : i <= j]
        seconds == parseInt(ReplaceFirst(retryInfo.retryDelay, "s"))
        match == MatchRetryIn(actualError.message)
    IN  IF match.found
        THEN (DecimalValue(match.whole) + 1) * 1000 + FracMillis(match.frac)
        ELSE IF hasInfo /\ retryInfo.retryDelay # <<>> /\ ~seconds.nan
        THEN (seconds.val + 1) * 1000
        ELSE 0

\* getRetryDelay(error): the explicit retry delay in ms, 0 when there is none
getRetryDelay(error) ==
    LET actualError == ActualError(error)
        details == actualError.details
        found == IF details = Absent THEN {}
                 ELSE {i \in 1..Len(details) :
                          details[i].type # <<>> /\ Includes(details[i].type, <<"RetryInfo">>)}
        hasInfo == found # {}
        retryInfo == details[CHOOSE i \in found : \A j \in found : i <= j]
        seconds == parseInt(ReplaceFirst(retryInfo.retryDelay, "s"))
        match == MatchRetryIn(actualError.message)
    IN  IF hasInfo /\ retryInfo.retryDelay # <<>> /\ ~seconds.nan
        THEN (seconds.val + 1) * 1000
        ELSE IF match.found
        THEN (DecimalValue(match.whole) + 1) * 1000 + FracMillis(match.frac)
        ELSE 0

\* const isQuotaError = ...
isQuotaError(error) ==
    LET actualError == ActualError(error)
        status == actualError.status
        code == actualError.code
        message == actualError.message
    IN  \/ status = "429"
        \/ code = "429"
        \/ status = "503"
        \/ status = "RESOURCE_EXHAUSTED"
        \/ Includes(message, <<"429">>)
        \/ Includes(message, <<"Quota exceeded">>)
        \/ Includes(message, <<"RESOURCE_EXHAUSTED">>)

\* a mistaken retry cap
MAX_RETRIES_Six == 5 + 1

MAX_RETRIES == 5

RECURSIVE Pow2(_)
Pow2(n) == IF n = 0 THEN 1 ELSE 2 * Pow2(n - 1)

\* a mistaken backoff: the exponent taken before the increment of retries
BackoffDelay_FromTwoSeconds(r) == 2000 * Pow2(r - 1)

\* delay = 2000 * Math.pow(2, retries), retries already incremented
BackoffDelay(r) == 2000 * Pow2(r)

\* the delay of the retry numbered r after error
RetryDelay(error, r) ==
    LET delay == getRetryDelay(error)
    IN  IF delay = 0 THEN BackoffDelay(r) ELSE delay

\* a mistaken retry test: one retry too many
ShouldRetry_OffByOne(error, r) == isQuotaError(error) /\ r <= MAX_RETRIES

\* a mistaken retry test: every failure is retried
ShouldRetry_AnyError(error, r) == r < MAX_RETRIES

\* a mistaken retry test: quota failures are retried without a cap
ShouldRetry_NoCap(error, r) == isQuotaError(error)

\* if (isQuotaError && retries < MAX_RETRIES)
ShouldRetry(error, r) == isQuotaError(error) /\ r < MAX_RETRIES

NoTextResponse == <<"I analyzed the input but could not generate a textual response.">>

QuotaExhaustedMessage(r) ==
    <<"Error:", "System overloaded or quota exceeded. Retries were exhausted after",
      ToString(r), "attempts. Tip: try FAST mode.">>

\* `Error: ${errorMessage}`
ErrorMessage(error) ==
    LET actualError == ActualError(error)
        errorMessage == IF actualError.isError THEN actualError.message
                        ELSE IF actualError.message # <<>> THEN actualError.message
                        ELSE <<"Unknown error occurred">>
    IN  <<"Error:">> \o errorMessage

ConnectFailedMessage == <<"Error:", "Failed to connect to Gemini API after multiple attempts.">>

----------------------------------------------------------------------------
(* What the backend (ai.models.generateContent) may resolve or reject with *)

MaxHintSeconds == 1

DigitAtom(n) ==
    CASE n = 0 -> "0" [] n = 1 -> "1" [] n = 2 -> "2" [] n = 3 -> "3" [] n = 4 -> "4"
      [] n = 5 -> "5" [] n = 6 -> "6" [] n = 7 -> "7" [] n = 8 -> "8" [] n = 9 -> "9"

\* the decimal digits of n < 100
NumAtoms(n) == IF n < 10 THEN <<DigitAtom(n)>> ELSE <<DigitAtom(n \div 10), DigitAtom(n % 10)>>

HintSeconds == 0..MaxHintSeconds

\* the body of a 429 response: {error: {code, message, status, details}}
QuotaBody(message, details) ==
    Thrown(TRUE, Payload("RESOURCE_EXHAUSTED", "429", message, details, FALSE))

\* an ApiError / Error instance thrown by the SDK
ApiError(status, message) ==
    Thrown(FALSE, Payload(status, Undefined, message, Absent, TRUE))

RetryInMessage(whole, frac) ==
    <<"Please ", "retry in ">> \o whole \o frac \o <<"s", ".">>

\* quota errors that carry no retry-after hint
PlainQuotaErrors ==
    { ApiError("429", <<"Too Many Requests">>),
      ApiError("503", <<"The model is overloaded.">>),
      ApiError(Undefined, <<"got status: ", "429">>),
      ApiError(Undefined, <<"Quota exceeded", " for metric">>),
      ApiError(Undefined, <<"RESOURCE_EXHAUSTED">>),
      Thrown(TRUE, Payload(Undefined, "429", <<>>, Absent, FALSE)),
      QuotaBody(<<"Resource exhausted">>, <<Detail(ErrorInfoType, <<>>)>>),
      QuotaBody(<<"Resource exhausted">>, <<>>),
      QuotaBody(<<"Wait before the ", "retry in ", "a while">>, Absent) }

\* quota errors with a RetryInfo detail and, in some, a "retry in" message as well
RetryInfoErrors ==
    { QuotaBody(<<"Resource exhausted">>,
                <<Detail(ErrorInfoType, <<>>), Detail(RetryInfoType, NumAtoms(n) \o <<"s">>)>>)
        : n \in HintSeconds }
    \cup
    { QuotaBody(RetryInMessage(NumAtoms(n + 3), <<".", "5">>),
                <<Detail(RetryInfoType, NumAtoms(n) \o <<"s">>)>>)
        : n \in HintSeconds }

\* quota errors whose only hint is the "retry in Ns" message, and errors whose
\* RetryInfo detail carries no usable duration
MessageHintErrors ==
    { ApiError("429", RetryInMessage(NumAtoms(n), <<>>)) : n \in HintSeconds }
    \cup
    { QuotaBody(RetryInMessage(NumAtoms(n), <<".", "2", "5">>), Absent) : n \in HintSeconds }
    \cup
    { QuotaBody(RetryInMessage(NumAtoms(n), <<>>), <<Detail(RetryInfoType, <<>>)>>)
        : n \in HintSeconds }

\* failures that are not quota-classified
OtherErrors ==
    { ApiError("400", <<"API key not valid.">>),
      ApiError(Undefined, <<"fetch failed">>),
      ApiError("500", <<>>),
      Thrown(TRUE, Payload("INVALID_ARGUMENT", "400", <<>>, Absent, FALSE)),
      Thrown(TRUE, Payload("INVALID_ARGUMENT", "400", <<"Bad request, ", "retry in ", "5", "s">>,
                           <<Detail(RetryInfoType, <<"1", "s">>)>>, FALSE)) }

BackendErrors == PlainQuotaErrors \cup RetryInfoErrors \cup MessageHintErrors \cup OtherErrors

NoError == ApiError(Undefined, <<>>)

Resolved(text) == [ok |-> TRUE, text |-> text, error |-> NoError]

Rejected(error) == [ok |-> FALSE, text |-> <<>>, error |-> error]

NoOutcome == [ok |-> TRUE, text |-> <<"(none)">>, error |-> NoError]

ClientTexts == { <<>>, <<"Use a mutex.">> }

ClientOutcomes == {Resolved(t) : t \in ClientTexts} \cup {Rejected(e) : e \in BackendErrors}

----------------------------------------------------------------------------
(* sendMessageToGemini: the retry loop                                      *)

AttemptEvent == [ev |-> "attempt", delay |-> 0, backoff |-> FALSE]

WaitEvent(delay, backoff) == [ev |-> "wait", delay |-> delay, backoff |-> backoff]

\* while (retries <= MAX_RETRIES)
LoopGuard(r) == r <= MAX_RETRIES

\* One iteration of the loop body: generateContent resolves (return) or
\* rejects (catch: schedule a wait and continue, or return an error string).
Attempt(outcomes) ==
    /\ cpc = "attempting"
    /\ \E o \in outcomes :
         /\ lastOutcome' = o
         /\ IF o.ok
            THEN /\ result' = IF o.text # <<>> THEN o.text ELSE NoTextResponse
                 /\ log' = Append(log, AttemptEvent)
                 /\ cpc' = "returned"
                 /\ UNCHANGED retries
            ELSE IF ShouldRetry(o.error, retries)
            THEN /\ retries' = retries + 1
                 /\ log' = log \o <<AttemptEvent,
                                    WaitEvent(RetryDelay(o.error, retries + 1),
                                              getRetryDelay(o.error) = 0)>>
                 /\ cpc' = "waiting"
                 /\ UNCHANGED result
            ELSE /\ result' = IF isQuotaError(o.error)
                              THEN QuotaExhaustedMessage(retries)
                              ELSE ErrorMessage(o.error)
                 /\ log' = Append(log, AttemptEvent)
                 /\ cpc' = "returned"
                 /\ UNCHANGED retries

\* await wait(delay) resolves; continue re-evaluates the loop condition
WaitElapsed ==
    /\ cpc = "waiting"
    /\ IF LoopGuard(retries)
       THEN cpc' = "attempting" /\ UNCHANGED result
       ELSE cpc' = "returned" /\ result' = ConnectFailedMessage
    /\ UNCHANGED <<retries, log, lastOutcome>>

----------------------------------------------------------------------------
(* App.tsx: the response parser                                             *)

OPEN == "<thinking>"

CLOSE == "</thinking>"

\* a mistaken match: the block runs to the last closing tag
processResponse_Greedy(fullText) ==
    LET opens == {i \in 1..Len(fullText) :
                     /\ fullText[i] = OPEN
                     /\ \E j \in (i + 1)..Len(fullText) : fullText[j] = CLOSE}
    IN  IF opens = {}
        THEN [text |-> fullText, hasThoughts |-> FALSE, thoughts |-> <<>>]
        ELSE LET i == CHOOSE k \in opens : \A m \in opens : k <= m
                 closes == {j \in (i + 1)..Len(fullText) : fullText[j] = CLOSE}
                 j == CHOOSE k \in closes : \A m \in closes : m <= k
             IN  [text |-> Trim(SubSeq(fullText, 1, i - 1) \o SubSeq(fullText, j + 1, Len(fullText))),
                  hasThoughts |-> TRUE,
                  thoughts |-> Trim(SubSeq(fullText, i + 1, j - 1))]

\* fullText.match(/<thinking>([\s\S]*?)<\/thinking>/), then replace and trim
processResponse(fullText) ==
    LET opens == {i \in 1..Len(fullText) :
                     /\ fullText[i] = OPEN
                     /\ \E j \in (i + 1)..Len(fullText) : fullText[j] = CLOSE}
    IN  IF opens = {}
        THEN [text |-> fullText, hasThoughts |-> FALSE, thoughts |-> <<>>]
        ELSE LET i == CHOOSE k \in opens : \A m \in opens : k <= m
                 closes == {j \in (i + 1)..Len(fullText) : fullText[j] = CLOSE}
                 j == CHOOSE k \in closes : \A m \in closes : k <= m
             IN  [text |-> Trim(SubSeq(fullText, 1, i - 1) \o SubSeq(fullText, j + 1, Len(fullText))),
                  hasThoughts |-> TRUE,
                  thoughts |-> Trim(SubSeq(fullText, i + 1, j - 1))]

\* x.thoughts || fallback
ThoughtsOr(x, fallback) == IF x.hasThoughts /\ x.thoughts # <<>> THEN x.thoughts ELSE fallback

----------------------------------------------------------------------------
(* geminiService.ts: the request sent to the backend.  The file defines     *)
(* sendMessageToGemini twice (lines 56-181 and 237-360) with the same retry *)
(* loop and different request construction; which definition a build takes  *)
(* is not fixed by the source, so a request is one of SentContents.         *)

File(id, name, content, type, mimeType) ==
    [id |-> id, name |-> name, content |-> content, type |-> type, mimeType |-> mimeType]

TextPart(t) == [text |-> t]

InlineDataPart(mimeType, data) == [inlineData |-> [mimeType |-> mimeType, data |-> data]]

\* relevantFileIds: null, or the ids to include
NullIds == [given |-> FALSE, ids |-> {}]

\* relevantFileIds ? contextFiles.filter(f => relevantFileIds.includes(f.id)) : contextFiles
filesToInclude(contextFiles, relevantFileIds) ==
    IF ~relevantFileIds.given
    THEN contextFiles
    ELSE LET Relevant(f) == f.id \in relevantFileIds.ids
         IN  SelectSeq(contextFiles, Relevant)

\* file.mimeType || 'image/png': a file without mimeType has mimeType ""
ImagePart(file) ==
    InlineDataPart(IF file.mimeType = "" THEN "image/png" ELSE file.mimeType, file.content)

\* first definition: the parts pushed for one context file
contentPartsOf(file) ==
    IF file.type = "image"
    THEN <<ImagePart(file), TextPart(<<"\n[Image: ">> \o file.name \o <<"]\n">>)>>
    ELSE IF file.type = "metric"
    THEN <<TextPart(<<"\n--- START OF METRICS (DATA: ">> \o file.name \o <<") ---\n">>
                    \o file.content \o <<"\n--- END OF METRICS ---\n">>)>>
    ELSE IF file.type = "issue"
    THEN <<TextPart(<<"\n--- START OF USER REPORT (">> \o file.name \o <<") ---\n">>
                    \o file.content \o <<"\n--- END OF REPORT ---\n">>)>>
    ELSE IF file.type = "log"
    THEN <<TextPart(<<"\n--- START OF LOGS (">> \o file.name \o <<") ---\n">>
                    \o file.content \o <<"\n--- END OF LOGS ---\n">>)>>
    ELSE <<TextPart(<<"\n--- START OF CODE FILE ">> \o file.name \o <<" ---\n">>
                    \o file.content \o <<"\n--- END OF FILE ---\n">>)>>

ContextPrefix(type) ==
    IF type = "log" THEN "LOGS"
    ELSE IF type = "metric" THEN "METRICS"
    ELSE IF type = "issue" THEN "REPORT"
    ELSE "CODE"

\* second definition: the parts pushed for one context file
currentPartsOf(file) ==
    IF file.type = "image"
    THEN <<ImagePart(file), TextPart(<<"\n[Context Image: ">> \o file.name \o <<"]\n">>)>>
    ELSE <<TextPart(<<"\n--- START OF ", ContextPrefix(file.type), " (">> \o file.name
                    \o <<") ---\n">> \o file.content
                    \o <<"\n--- END OF ", ContextPrefix(file.type), " ---\n">>)>>

RECURSIVE ForEachFile(_, _)
\* filesToInclude.forEach(file => parts.push(...)): 1 is the first definition, 2 the second
ForEachFile(fs, definition) ==
    IF fs = <<>> THEN <<>>
    ELSE (IF definition = 1 THEN contentPartsOf(Head(fs)) ELSE currentPartsOf(Head(fs)))
         \o ForEachFile(Tail(fs), definition)

contentParts(contextFiles, relevantFileIds, prompt) ==
    LET fs == filesToInclude(contextFiles, relevantFileIds)
    IN  (IF Len(fs) > 0
         THEN <<TextPart(<<"Here is the active file context and failure signals for your analysis:\n">>)>>
              \o ForEachFile(fs, 1)
         ELSE <<>>)
        \o <<TextPart(prompt)>>

currentParts(contextFiles, relevantFileIds, prompt) ==
    LET fs == filesToInclude(contextFiles, relevantFileIds)
    IN  (IF Len(fs) > 0
         THEN <<TextPart(<<"Here is the current architectural context and failure signals:\n">>)>>
              \o ForEachFile(fs, 2)
         ELSE <<>>)
        \o <<TextPart(prompt)>>

\* first definition: contents: { role: 'user', parts: contentParts }; history is not read
contentsWithoutHistory(history, contextFiles, relevantFileIds, prompt) ==
    <<[role |-> "user", parts |-> contentParts(contextFiles, relevantFileIds, prompt)]>>

\* second definition: the history entries, then the current request
contents(history, contextFiles, relevantFileIds, prompt) ==
    [i \in 1..Len(history) |->
        [role |-> IF history[i].role = "user" THEN "user" ELSE "model",
         parts |-> history[i].parts]]
    \o <<[role |-> "user", parts |-> currentParts(contextFiles, relevantFileIds, prompt)]>>

\* the `contents` of the generateContent request of a call (relevantFileIds is null at every call site)
SentContents(call) ==
    { contentsWithoutHistory(call.history, call.files, NullIds, call.prompt),
      contents(call.history, call.files, NullIds, call.prompt) }

----------------------------------------------------------------------------
(* App.tsx: state, mode selection and handleSend                            *)

MaxRequests == 1

StatusVerified == <<"STATUS: ", "VERIFIED">>

DepthOptions == {2048, 4096, 8192, 16384}

QABudget == 2048

RefineBudget == 4096

DefaultBudget == 4096

UserInputs == { <<>>, <<"fix the race in App.tsx">> }

Message(id, role, text, hasThoughts, thoughts, isThinking) ==
    [id |-> id, role |-> role, text |-> text, hasThoughts |-> hasThoughts,
     thoughts |-> thoughts, isThinking |-> isThinking]

DEFAULT_MESSAGE == Message(<<"welcome", 0>>, "model", <<"# CodeAgent X Online">>, FALSE, <<>>, FALSE)

NoLoc ==
    [userText |-> <<>>, thinkingMsgId |-> <<"", 0>>, agentMode |-> "", thinkingBudget |-> 0,
     files |-> <<>>, draftResponseText |-> <<>>, verificationPrompt |-> <<>>,
     agentStatus |-> ""]

\* { role, parts: [{ text }] }
HistoryItem(role, text) == [role |-> role, parts |-> <<TextPart(text)>>]

Call(phase, prompt, mode, contextFiles, history, budget) ==
    [phase |-> phase, prompt |-> prompt, mode |-> mode, files |-> contextFiles,
     history |-> history, budget |-> budget, done |-> FALSE, failed |-> FALSE,
     returned |-> <<>>]

\* entering sendMessageToGemini: retries = 0 and the first generateContent is in flight
StartCall(cs, call) ==
    /\ calls' = Append(cs, call)
    /\ cpc' = "attempting"
    /\ retries' = 0
    /\ log' = <<>>
    /\ lastOutcome' = NoOutcome
    /\ result' = <<>>

\* the awaited sendMessageToGemini promise resolves with `result`
Resolve(cs) == [cs EXCEPT ![Len(cs)].done = TRUE,
                          ![Len(cs)].failed = ~lastOutcome.ok,
                          ![Len(cs)].returned = result]

ClientIdle ==
    /\ cpc' = "idle"
    /\ retries' = 0
    /\ log' = <<>>
    /\ lastOutcome' = NoOutcome
    /\ result' = <<>>

\* a mistaken decide step: success only when the visible text is the bare marker
Verified_Exact(verificationText) == verificationText = StatusVerified

\* a mistaken decide step: success only when the visible text starts with the marker
Verified_Prefix(verificationText) ==
    /\ Len(verificationText) >= Len(StatusVerified)
    /\ SubSeq(verificationText, 1, Len(StatusVerified)) = StatusVerified

\* verification.text.includes("STATUS: VERIFIED")
Verified(verificationText) == Includes(verificationText, StatusVerified)

verificationPrompt(draftText, userText) ==
    <<"I have generated a potential solution. Now act as a QA Simulation Environment. Proposed Solution: ">>
    \o draftText
    \o <<" Determine if it fully addresses the user's original request: ">>
    \o userText
    \o <<" Output Format: If verified: ", "STATUS: ", "VERIFIED", " If failed: ", "STATUS: ", "FAILED">>

refinementPrompt(verificationText) ==
    <<"The verification simulation failed with the following errors: ">>
    \o verificationText
    \o <<" Please REWRITE the solution to fix these specific issues.">>

\* finalThoughts after the verification step
QAThoughts(draft, verification) ==
    ThoughtsOr(draft, <<>>)
    \o <<"### QA Verification Simulation">>
    \o ThoughtsOr(verification, <<"Executing mental sandbox test suite...">>)
    \o <<"**Result:** ", IF Verified(verification.text) THEN "Pass" ELSE "Fail">>

\* finalThoughts after the refinement step
RepairThoughts(draft, verification, finalFix) ==
    QAThoughts(draft, verification)
    \o <<"### Autonomous Repair">>
    \o ThoughtsOr(finalFix, <<>>)

\* a mistaken update: the response is added as a new turn
UpdateMessage_Append(prev, id, text, hasThoughts, thoughts) ==
    Append(prev, Message(id, "model", text, hasThoughts, thoughts, FALSE))

\* setMessages(prev => prev.map(msg => msg.id === id ? {...msg, text, thoughts, isThinking: false} : msg))
UpdateMessage(prev, id, text, hasThoughts, thoughts) ==
    [k \in DOMAIN prev |->
        IF prev[k].id = id
        THEN [prev[k] EXCEPT !.text = text, !.hasThoughts = hasThoughts,
                             !.thoughts = thoughts, !.isThinking = FALSE]
        ELSE prev[k]]

\* setInput(e.target.value)
SetInput ==
    /\ \E t \in UserInputs : t # input /\ input' = t
    /\ UNCHANGED <<agentMode, thinkingBudget, agentState, messages, files, now, hpc, loc,
                   calls, requests>>
    /\ UNCHANGED clientVars
    /\ UNCHANGED sessionVars
    /\ UNCHANGED commitVars

\* a mistaken mode switch: the budget is left as it was
handleModeChange_KeepBudget ==
    /\ \E mode \in {"FAST", "ARCHITECT", "DEBUG"} :
         /\ agentMode' = mode
         /\ thinkingBudget' = thinkingBudget
         /\ agentMode' # agentMode
    /\ UNCHANGED <<input, agentState, messages, files, now, hpc, loc, calls, requests>>
    /\ UNCHANGED clientVars
    /\ UNCHANGED sessionVars
    /\ UNCHANGED commitVars

handleModeChange ==
    /\ \E mode \in {"FAST", "ARCHITECT", "DEBUG"} :
         /\ agentMode' = mode
         /\ thinkingBudget' = IF mode = "ARCHITECT" \/ mode = "DEBUG" THEN DefaultBudget ELSE 0
         /\ <<agentMode', thinkingBudget'>> # <<agentMode, thinkingBudget>>
    /\ UNCHANGED <<input, agentState, messages, files, now, hpc, loc, calls, requests>>
    /\ UNCHANGED clientVars
    /\ UNCHANGED sessionVars
    /\ UNCHANGED commitVars

\* the Depth selector, rendered when agentMode !== FAST
SelectDepth ==
    /\ agentMode # "FAST"
    /\ \E b \in DepthOptions : b # thinkingBudget /\ thinkingBudget' = b
    /\ UNCHANGED <<input, agentMode, agentState, messages, files, now, hpc, loc, calls, requests>>
    /\ UNCHANGED clientVars
    /\ UNCHANGED sessionVars
    /\ UNCHANGED commitVars

\* handleSend up to its first await, started from the send button, which is disabled
\* while agentState.status is not 'idle': here one invocation runs at a time
\* (hpc = "idle"); SendStarted below is the same code with other handlers in progress.
\* Date.now() is read for the ids, and time has advanced when the next request is sent.
\* The catch block of handleSend (setAgentState 'error') is not reached:
\* sendMessageToGemini returns a string for every backend outcome.
handleSend ==
    /\ hpc = "idle"
    /\ requests < MaxRequests
    /\ ~(Trim(input) = <<>> /\ Len(files) = 0)
    /\ LET userMsg == Message(<<"", now>>, "user", input, FALSE, <<>>, FALSE)
           thinkingMsgId == <<"thinking-", now>>
       IN  /\ messages' = messages \o <<userMsg, Message(thinkingMsgId, "model", <<>>, FALSE, <<>>, TRUE)>>
           /\ input' = <<>>
           /\ agentState' = "analyzing"
           /\ loc' = [NoLoc EXCEPT !.userText = input, !.thinkingMsgId = thinkingMsgId,
                                   !.agentMode = agentMode, !.thinkingBudget = thinkingBudget,
                                   !.files = files]
           /\ IF agentMode = "DEBUG"
              THEN /\ hpc' = "draft"
                   /\ StartCall(<<>>, Call("draft", input, "ARCHITECT", files, <<>>, thinkingBudget))
              ELSE /\ hpc' = "standard"
                   /\ StartCall(<<>>, Call("standard", input, agentMode, files, <<>>, thinkingBudget))
    /\ now' = now + 1
    /\ requests' = requests + 1
    /\ UNCHANGED <<agentMode, thinkingBudget, files>>
    /\ UNCHANGED sessionVars
    /\ UNCHANGED commitVars

\* a mistaken dispatch: the verification call is started without awaiting the draft call
DraftResolved_Eager ==
    /\ hpc = "draft"
    /\ LET draftResponseText == result
           draft == processResponse(draftResponseText)
           prompt == verificationPrompt(draft.text, loc.userText)
       IN  /\ agentState' = "verifying"
           /\ loc' = [loc EXCEPT !.draftResponseText = draftResponseText,
                                 !.verificationPrompt = prompt]
           /\ StartCall(calls,
                        Call("verify", prompt, "ARCHITECT", loc.files,
                             <<HistoryItem("user", loc.userText),
                               HistoryItem("model", draftResponseText)>>,
                             QABudget))
    /\ hpc' = "verify"
    /\ UNCHANGED <<input, agentMode, thinkingBudget, messages, files, now, requests>>
    /\ UNCHANGED sessionVars
    /\ UNCHANGED commitVars

\* handleSend resumes with draftResponseText: parse it, then start the verification call
DraftResolved ==
    /\ hpc = "draft"
    /\ cpc = "returned"
    /\ LET draftResponseText == result
           draft == processResponse(draftResponseText)
           prompt == verificationPrompt(draft.text, loc.userText)
       IN  /\ agentState' = "verifying"
           /\ loc' = [loc EXCEPT !.draftResponseText = draftResponseText,
                                 !.verificationPrompt = prompt]
           /\ StartCall(Resolve(calls),
                        Call("verify", prompt, "ARCHITECT", loc.files,
                             <<HistoryItem("user", loc.userText),
                               HistoryItem("model", draftResponseText)>>,
                             QABudget))
    /\ hpc' = "verify"
    /\ UNCHANGED <<input, agentMode, thinkingBudget, messages, files, now, requests>>
    /\ UNCHANGED sessionVars
    /\ UNCHANGED commitVars

\* handleSend resumes with verificationResponseText: decide, then finish or start the refinement
VerifyResolved ==
    /\ hpc = "verify"
    /\ cpc = "returned"
    /\ LET verificationResponseText == result
           verification == processResponse(verificationResponseText)
           draft == processResponse(loc.draftResponseText)
       IN  IF Verified(verification.text)
           THEN /\ messages' = UpdateMessage(messages, loc.thinkingMsgId, draft.text, TRUE,
                                             QAThoughts(draft, verification))
                /\ agentState' = "idle"
                /\ hpc' = "idle"
                /\ loc' = NoLoc
                /\ calls' = Resolve(calls)
                /\ ClientIdle
           ELSE /\ agentState' = "writing"
                /\ hpc' = "refine"
                /\ StartCall(Resolve(calls),
                             Call("refine", refinementPrompt(verification.text), "ARCHITECT",
                                  loc.files,
                                  <<HistoryItem("user", loc.userText),
                                    HistoryItem("model", loc.draftResponseText),
                                    HistoryItem("user", loc.verificationPrompt),
                                    HistoryItem("model", verificationResponseText)>>,
                                  RefineBudget))
                /\ UNCHANGED <<messages, loc>>
    /\ UNCHANGED <<input, agentMode, thinkingBudget, files, now, requests>>
    /\ UNCHANGED sessionVars
    /\ UNCHANGED commitVars

\* a mistaken loop: the refined answer is sent back to the verification step
RefineResolved_Reverify ==
    /\ hpc = "refine"
    /\ cpc = "returned"
    /\ LET finalFix == processResponse(result)
           prompt == verificationPrompt(finalFix.text, loc.userText)
       IN  /\ agentState' = "verifying"
           /\ loc' = [loc EXCEPT !.draftResponseText = result,
                                 !.verificationPrompt = prompt]
           /\ StartCall(Resolve(calls),
                        Call("verify", prompt, "ARCHITECT", loc.files,
                             <<HistoryItem("user", loc.userText),
                               HistoryItem("model", result)>>,
                             QABudget))
    /\ hpc' = "verify"
    /\ UNCHANGED <<input, agentMode, thinkingBudget, messages, files, now, requests>>
    /\ UNCHANGED sessionVars
    /\ UNCHANGED commitVars

\* handleSend resumes with finalFixResponseText and finishes
RefineResolved ==
    /\ hpc = "refine"
    /\ cpc = "returned"
    /\ LET finalFix == processResponse(result)
           draft == processResponse(loc.draftResponseText)
           verification == processResponse(calls[2].returned)
       IN  messages' = UpdateMessage(messages, loc.thinkingMsgId, finalFix.text, TRUE,
                                     RepairThoughts(draft, verification, finalFix))
    /\ agentState' = "idle"
    /\ hpc' = "idle"
    /\ loc' = NoLoc
    /\ calls' = Resolve(calls)
    /\ ClientIdle
    /\ UNCHANGED <<input, agentMode, thinkingBudget, files, now, requests>>
    /\ UNCHANGED sessionVars
    /\ UNCHANGED commitVars

\* the standard modes: handleSend resumes with responseText and finishes
StandardResolved ==
    /\ hpc = "standard"
    /\ cpc = "returned"
    /\ LET r == processResponse(result)
       IN  messages' = UpdateMessage(messages, loc.thinkingMsgId, r.text, r.hasThoughts, r.thoughts)
    /\ agentState' = "idle"
    /\ hpc' = "idle"
    /\ loc' = NoLoc
    /\ calls' = Resolve(calls)
    /\ ClientIdle
    /\ UNCHANGED <<input, agentMode, thinkingBudget, files, now, requests>>
    /\ UNCHANGED sessionVars
    /\ UNCHANGED commitVars

----------------------------------------------------------------------------
(* Specifications                                                           *)

\* what the backend answers in a session: texts with and without a reasoning
\* block and with the status marker in different places, and failures
SessionTexts ==
    { <<>>,
      <<"<thinking>", "race", "</thinking>", " ", "Use a mutex.">>,
      <<"Some preamble. ", "STATUS: ", "VERIFIED", ". Trailing text.">>,
      <<"STATUS: ", "FAILED", "\n", "reason: off by one">>,
      <<"<thinking>", "STATUS: ", "VERIFIED", "</thinking>", "STATUS: ", "FAILED">>,
      <<"STATUS: ", "<thinking>", "sim", "</thinking>", "VERIFIED">> }

SessionErrors ==
    { ApiError("429", <<"Too Many Requests">>),
      ApiError("400", <<"API key not valid.">>) }

SessionOutcomes == {Resolved(t) : t \in SessionTexts} \cup {Rejected(e) : e \in SessionErrors}

SessionAttempt == Attempt(SessionOutcomes) /\ UNCHANGED appVars

SessionWaitElapsed == WaitElapsed /\ UNCHANGED appVars

InitApp ==
    /\ input = <<>>
    /\ agentMode = "ARCHITECT"
    /\ thinkingBudget = DefaultBudget
    /\ agentState = "idle"
    /\ messages = <<DEFAULT_MESSAGE>>
    /\ files = <<>>
    /\ now = 1
    /\ hpc = "idle"
    /\ loc = NoLoc
    /\ calls = <<>>
    /\ requests = 0
    /\ graphData = [nodes |-> <<>>, links |-> <<>>]
    /\ graphDeps = <<>>
    /\ tasks = <<>>
    /\ github = InitialRemote
    /\ modal = ClosedModal

\* the mode and budget pairs that handleModeChange and the Depth selector produce
ModeBudgets ==
    {<<"FAST", 0>>} \cup ({"ARCHITECT", "DEBUG"} \X DepthOptions)

\* a session in which the user has chosen a mode and a depth and is about to send
Init ==
    /\ input = <<>>
    /\ \E mb \in ModeBudgets : agentMode = mb[1] /\ thinkingBudget = mb[2]
    /\ agentState = "idle"
    /\ messages = <<DEFAULT_MESSAGE>>
    /\ files = <<>>
    /\ now = 1
    /\ hpc = "idle"
    /\ loc = NoLoc
    /\ calls = <<>>
    /\ requests = 0
    /\ graphData = [nodes |-> <<>>, links |-> <<>>]
    /\ graphDeps = <<>>
    /\ tasks = <<>>
    /\ github = InitialRemote
    /\ modal = ClosedModal
    /\ cpc = "idle"
    /\ retries = 0
    /\ log = <<>>
    /\ lastOutcome = NoOutcome
    /\ result = <<>>

Next ==
    \/ SetInput
    \/ handleSend
    \/ SessionAttempt
    \/ SessionWaitElapsed
    \/ DraftResolved
    \/ VerifyResolved
    \/ RefineResolved
    \/ StandardResolved

Spec == Init /\ [][Next]_vars

ClientAttempt == Attempt(ClientOutcomes) /\ UNCHANGED appVars

ClientWaitElapsed == WaitElapsed /\ UNCHANGED appVars

\* a single call of sendMessageToGemini, just entered
InitClient ==
    /\ InitApp
    /\ cpc = "attempting"
    /\ retries = 0
    /\ log = <<>>
    /\ lastOutcome = NoOutcome
    /\ result = <<>>

NextClient == ClientAttempt \/ ClientWaitElapsed

SpecClient == InitClient /\ [][NextClient]_vars

----------------------------------------------------------------------------
(* Properties of sendMessageToGemini (checked under SpecClient)             *)

Last(q) == q[Len(q)]

\* the number of generateContent calls made so far by the current call
Attempts == Cardinality({i \in DOMAIN log : log[i].ev = "attempt"})

Failed == ~lastOutcome.ok

QuotaFailed == Failed /\ isQuotaError(lastOutcome.error)

OtherFailed == Failed /\ ~isQuotaError(lastOutcome.error)

IsDuration(d) ==
    /\ Len(d) >= 2
    /\ d[Len(d)] = "s"
    /\ \A i \in 1..(Len(d) - 1) : d[i] \in Digits

\* the payload carries a RetryInfo detail with a retry-after duration
HasRetryInfoHint(error) ==
    /\ error.payload.details # Absent
    /\ \E i \in DOMAIN error.payload.details :
         /\ Last(error.payload.details[i].type) = "RetryInfo"
         /\ IsDuration(error.payload.details[i].retryDelay)

\* the seconds of that duration
RetryInfoSeconds(error) ==
    LET d == CHOOSE d \in {error.payload.details[i] : i \in DOMAIN error.payload.details} :
                 Last(d.type) = "RetryInfo" /\ IsDuration(d.retryDelay)
    IN  CHOOSE n \in 0..99 : d.retryDelay = NumAtoms(n) \o <<"s">>

Fractions == { <<>>, <<".", "5">>, <<".", "2", "5">> }

FractionMillis(f) ==
    CASE f = <<>> -> 0 [] f = <<".", "5">> -> 500 [] f = <<".", "2", "5">> -> 250

\* the numbers N for which the message says "retry in Ns", as <<seconds, fraction>>
MessageHints(error) ==
    {h \in (0..99) \X Fractions :
        Includes(error.payload.message, <<"retry in ">> \o NumAtoms(h[1]) \o h[2] \o <<"s">>)}

HasMessageHint(error) == MessageHints(error) # {}

NoHint(error) == ~HasRetryInfoHint(error) /\ ~HasMessageHint(error)

\* C1: when every backend attempt of a call failed with a quota-classified
\* error, the call made exactly 6 attempts (5 retries) and returned the
\* quota-exhaustion error string.  (A call that returned on a quota failure
\* had only quota failures before it.)
C1_RetryBound ==
    (cpc = "returned" /\ QuotaFailed) =>
        /\ Attempts = 6
        /\ retries = 5
        /\ result = QuotaExhaustedMessage(5)

C1_Witness == cpc = "returned" /\ QuotaFailed /\ Attempts = 6

\* C2: whatever the backend does, a call makes at most 6 attempts, it is
\* always either attempting, waiting or returned, and a returned call has
\* returned a non-empty string.
C2_AtMostSixAttempts ==
    /\ Attempts <= 6
    /\ cpc \in {"attempting", "waiting", "returned"}
    /\ cpc = "returned" => (Len(result) >= 1 /\ Attempts >= 1)
    /\ (cpc = "returned" /\ Failed) => result[1] = "Error:"

C2_Witness == cpc = "returned" /\ Failed /\ Attempts = 6

\* C3: a failure that is not quota-classified ends the call at once: the
\* failed attempt is the last event of the call (no wait, no further attempt),
\* also after earlier retries, and the returned string is "Error:" followed by
\* the underlying message.
C3_NonQuotaTerminates ==
    OtherFailed =>
        /\ cpc = "returned"
        /\ Last(log).ev = "attempt"
        /\ Attempts = retries + 1
        /\ result[1] = "Error:"
        /\ lastOutcome.error.payload.message # <<>>
              => result = <<"Error:">> \o lastOutcome.error.payload.message

C3_Witness ==
    /\ cpc = "returned"
    /\ OtherFailed
    /\ retries >= 1
    /\ lastOutcome.error.payload.message # <<>>

\* C4: without a retry-after hint the waits before retries 1..5 are 2000,
\* 4000, 8000, 16000 and 32000 ms.
C4_BackoffFromTwoSeconds ==
    (cpc = "waiting" /\ NoHint(lastOutcome.error)) =>
        Last(log).delay = 2000 * Pow2(retries - 1)

C6_DelayPrecedence ==
    cpc = "waiting" =>
        LET error == lastOutcome.error
            wait == Last(log)
        IN  /\ HasRetryInfoHint(error) =>
                  wait.delay = (RetryInfoSeconds(error) + 1) * 1000
            /\ (~HasRetryInfoHint(error) /\ HasMessageHint(error)) =>
                  \E h \in MessageHints(error) :
                      wait.delay = (h[1] + 1) * 1000 + FractionMillis(h[2])
            /\ wait.backoff => NoHint(error)

C6_Witness ==
    /\ cpc = "waiting"
    /\ HasRetryInfoHint(lastOutcome.error)
    /\ HasMessageHint(lastOutcome.error)
    /\ Last(log).delay = (RetryInfoSeconds(lastOutcome.error) + 1) * 1000

\* C7: the events of a call alternate attempt, wait, attempt, ...; the call
\* waits only after a quota-classified failure that found fewer than 5
\* retries used; a new attempt starts only from a wait; and the attempt that
\* ends the call is its last event.
C7_RetryStateMachine ==
    /\ \A i \in DOMAIN log : log[i].ev = (IF i % 2 = 1 THEN "attempt" ELSE "wait")
    /\ cpc = "waiting" =>
          (Len(log) >= 2 /\ Last(log).ev = "wait" /\ QuotaFailed /\ retries - 1 < 5)
    /\ cpc = "attempting" => (log = <<>> \/ (Last(log).ev = "wait" /\ QuotaFailed))
    /\ cpc = "returned" => (Len(log) >= 1 /\ Last(log).ev = "attempt")
    /\ Len(log) = 2 * retries + (IF cpc = "returned" THEN 1 ELSE 0)

C7_Witness == cpc = "attempting" /\ retries = 5 /\ Len(log) = 10

----------------------------------------------------------------------------
(* Properties of the debug-mode repair sequence (checked under Spec)        *)

\* the latest handleSend ran the debug-mode flow
DebugRequest == calls # <<>> /\ calls[1].phase = "draft"

\* the latest handleSend has run to its end
Finished == hpc = "idle" /\ calls # <<>>

\* the agent turn created by the latest handleSend
FinalTurn ==
    messages[CHOOSE k \in DOMAIN messages : messages[k].id = <<"thinking-", now - 1>>]

DraftVisible == processResponse(calls[1].returned).text

VerificationVisible == processResponse(calls[2].returned).text

RefinementVisible == processResponse(calls[3].returned).text

\* the visible text of the verification response contains the marker somewhere
MarkerInVerification ==
    \E i \in 1..(Len(VerificationVisible) - 1) :
        VerificationVisible[i] = "STATUS: " /\ VerificationVisible[i + 1] = "VERIFIED"

\* C8: a finished debug-mode request has made exactly 2 sendMessageToGemini
\* calls when the verification response is classified as success and exactly
\* 3 when it is classified as failure; no request makes more than 3.
C8_PhaseCount ==
    /\ Len(calls) <= 3
    /\ (Finished /\ DebugRequest) =>
          Len(calls) = (IF MarkerInVerification THEN 2 ELSE 3)
    /\ (Finished /\ ~DebugRequest) => Len(calls) = 1

C8_Witness ==
    /\ Finished
    /\ DebugRequest
    /\ MarkerInVerification
    /\ Len(calls) = 2
    /\ VerificationVisible # StatusVerified

\* C9: verification counts as success exactly when the visible text of the
\* verification response contains STATUS: VERIFIED anywhere.  On success no
\* refine call is made and the final visible answer is the draft's visible
\* text; otherwise the refine call is made and the final visible answer is
\* the refinement's visible text.
C9_DecideStep ==
    /\ (DebugRequest /\ Len(calls) = 3) => ~MarkerInVerification
    /\ (Finished /\ DebugRequest) =>
          IF MarkerInVerification
          THEN /\ Len(calls) = 2
               /\ FinalTurn.text = DraftVisible
               /\ ~FinalTurn.isThinking
          ELSE /\ Len(calls) = 3
               /\ calls[3].phase = "refine"
               /\ FinalTurn.text = RefinementVisible
               /\ ~FinalTurn.isThinking
    /\ (Finished /\ DebugRequest
          /\ calls[2].returned = <<"Some preamble. ", "STATUS: ", "VERIFIED", ". Trailing text.">>)
          => Len(calls) = 2
    /\ (Finished /\ DebugRequest
          /\ calls[2].returned = <<"STATUS: ", "FAILED", "\n", "reason: off by one">>)
          => Len(calls) = 3

C9_Witness ==
    /\ Finished
    /\ DebugRequest
    /\ Len(calls) = 3
    /\ Includes(calls[2].returned, StatusVerified)
    /\ FinalTurn.text = RefinementVisible
    /\ FinalTurn.text # DraftVisible

\* C10: when the draft call returns an error string no verify or refine call
\* is made and that string is the final visible answer; when the verify call
\* returns an error string no refine call is made.
C10_ErrorHalts ==
    /\ (DebugRequest /\ calls[1].done /\ calls[1].failed) =>
          /\ Len(calls) = 1
          /\ hpc = "idle"
          /\ FinalTurn.text = calls[1].returned
    /\ (DebugRequest /\ Len(calls) >= 2 /\ calls[2].done /\ calls[2].failed) =>
          Len(calls) = 2

----------------------------------------------------------------------------
(* Order of the calls of one repair invocation (checked under Spec)         *)

Phases == [k \in DOMAIN calls |-> calls[k].phase]

IsPrefix(p, q) == Len(p) <= Len(q) /\ p = SubSeq(q, 1, Len(p))

PassedQA(answer) ==
    \E k \in DOMAIN calls :
        /\ calls[k].phase = "verify"
        /\ calls[k].done
        /\ calls[k].prompt = verificationPrompt(answer, calls[1].prompt)
        /\ Includes(processResponse(calls[k].returned).text, StatusVerified)

\* C12: every answer a debug-mode request delivers as final has been accepted
\* by a verification step performed on that answer.
C12_FinalAnswerPassedQA ==
    (Finished /\ DebugRequest) => PassedQA(FinalTurn.text)

\* C13: the calls of one invocation are made one after the other: every call
\* but the latest has resolved, so at most one is outstanding, and the client
\* is busy exactly while the latest call is outstanding.
C13_SequentialPhases ==
    /\ \A k \in DOMAIN calls : k < Len(calls) => calls[k].done
    /\ Cardinality({k \in DOMAIN calls : ~calls[k].done}) <= 1
    /\ (calls # <<>> /\ ~calls[Len(calls)].done) <=> cpc # "idle"
    /\ (Len(calls) >= 2 /\ calls[2].phase = "verify") =>
          calls[2].history[2].parts = <<TextPart(calls[1].returned)>>
    /\ (Len(calls) >= 3 /\ calls[3].phase = "refine") =>
          calls[3].history[4].parts = <<TextPart(calls[2].returned)>>

C13_Witness ==
    /\ Phases = <<"draft", "verify", "refine">>
    /\ calls[1].done
    /\ calls[2].done
    /\ ~calls[3].done
    /\ cpc = "waiting"

\* C14: the verify call's reasoning budget is strictly lower than the budget
\* of the draft call of the same invocation.
C14_VerifyBudgetLower ==
    (DebugRequest /\ Len(calls) >= 2) => calls[2].budget < calls[1].budget

\* the draft exchange: the user's request and the raw draft response
DraftExchange ==
    <<HistoryItem("user", calls[1].prompt), HistoryItem("model", calls[1].returned)>>

\* the verification exchange: the verification prompt and the raw verification response
VerifyExchange ==
    <<HistoryItem("user", calls[2].prompt), HistoryItem("model", calls[2].returned)>>

\* request c carries the history of the call, in order, before the current message
HistoryFirst(c, call) ==
    /\ Len(c) = Len(call.history) + 1
    /\ \A i \in 1..Len(call.history) :
          c[i].role = call.history[i].role /\ c[i].parts = call.history[i].parts
    /\ c[Len(c)].role = "user"
    /\ Last(c[Len(c)].parts) = TextPart(call.prompt)

\* C15: the verify call passes the draft exchange as history and the refine
\* call the draft exchange followed by the verification exchange, and the
\* request sent to the backend for a call has the call's history entries, in
\* the same order, before the current message.
C15_HistoryInRequest ==
    \A k \in DOMAIN calls :
        /\ calls[k].phase = "verify" => calls[k].history = DraftExchange
        /\ calls[k].phase = "refine" => calls[k].history = DraftExchange \o VerifyExchange
        /\ \A c \in SentContents(calls[k]) : HistoryFirst(c, calls[k])

\* some call of the latest request returned an error string
RequestFailed == \E k \in DOMAIN calls : calls[k].done /\ calls[k].failed

\* the error string returned by the first failed call of the latest request
FirstErrorString ==
    calls[CHOOSE k \in DOMAIN calls :
            /\ calls[k].done /\ calls[k].failed
            /\ \A j \in 1..(k - 1) : ~calls[j].failed].returned

\* C19: when a call of a request returned an error string, the finished
\* request's agent turn shows that error message as its visible text and
\* has no reasoning trace, in the standard modes and in debug mode.
C19_FailedTurn ==
    (Finished /\ RequestFailed) =>
        /\ FinalTurn.text = FirstErrorString
        /\ ~FinalTurn.hasThoughts
        /\ FinalTurn.thoughts = <<>>

----------------------------------------------------------------------------
(* services/dependencyService.ts: the dependency graph of the corpus.       *)
(* A file name or an import path is a sequence of atoms in which "." and    *)
(* "/" are atoms of their own: src/utils.ts is                              *)
(* <<"src", "/", "utils", ".", "ts">>.  File content is a sequence of atoms *)
(* as well: the words import and from, the call prefix require( , quotes,   *)
(* blanks, newlines, identifiers, punctuation.                              *)

RECURSIVE Split(_, _)
\* s.split(sep): the pieces of s between the occurrences of the atom sep
Split(s, sep) ==
    IF \A i \in DOMAIN s : s[i] # sep
    THEN <<s>>
    ELSE LET i == CHOOSE k \in DOMAIN s : s[k] = sep /\ \A j \in 1..(k - 1) : s[j] # sep
         IN  <<SubSeq(s, 1, i - 1)>> \o Split(SubSeq(s, i + 1, Len(s)), sep)

RECURSIVE Join(_, _)
\* pieces.join(sep)
Join(pieces, sep) ==
    IF pieces = <<>> THEN <<>>
    ELSE IF Len(pieces) = 1 THEN pieces[1]
    ELSE pieces[1] \o <<sep>> \o Join(Tail(pieces), sep)

\* s.endsWith(suffix)
EndsWith(s, suffix) ==
    Len(suffix) <= Len(s) /\ SubSeq(s, Len(s) - Len(suffix) + 1, Len(s)) = suffix

\* a mistaken stripping: the extension is kept
nameWithoutExt_Whole(name) == name

\* name.split('.').slice(0, -1).join('.')
nameWithoutExt(name) ==
    LET pieces == Split(name, ".")
    IN  Join(SubSeq(pieces, 1, Len(pieces) - 1), ".")

\* imp.split('/').pop() || imp
impBasename(imp) ==
    LET pieces == Split(imp, "/")
        last == pieces[Len(pieces)]
    IN  IF last = <<>> THEN imp ELSE last

\* the predicate given to Array.find in generateDependencyGraph
ResolvesTo(name, imp) ==
    \/ name = imp
    \/ nameWithoutExt(name) = impBasename(imp)
    \/ EndsWith(nameWithoutExt(name), <<"/">> \o impBasename(imp))

RECURSIVE InsertionOrder(_)
\* Array.from(new Set(names)): the distinct names in the order of their first occurrence
InsertionOrder(names) ==
    IF names = <<>> THEN <<>>
    ELSE LET earlier == InsertionOrder(SubSeq(names, 1, Len(names) - 1))
             name == names[Len(names)]
         IN  IF \E i \in DOMAIN earlier : earlier[i] = name
             THEN earlier
             ELSE Append(earlier, name)

\* a mistaken resolution: the raw reference is taken as the target
FindTarget_Raw(fileNames, imp) == [found |-> TRUE, name |-> imp]

\* Array.from(fileNames).find(...): the first name that satisfies the predicate, if any
FindTarget(fileNames, imp) ==
    IF \E i \in DOMAIN fileNames : ResolvesTo(fileNames[i], imp)
    THEN [found |-> TRUE,
          name |-> fileNames[CHOOSE i \in DOMAIN fileNames :
                                 /\ ResolvesTo(fileNames[i], imp)
                                 /\ \A j \in 1..(i - 1) : ~ResolvesTo(fileNames[j], imp)]]
    ELSE [found |-> FALSE, name |-> <<>>]

Quotes == {"'", "\""}

\* the atoms that hold a character outside [\w\s{},*]
Punctuation == {".", "/", "'", "\"", "require(", "(", ")", ";", "=", "-", "@", ":"}

ClauseAtom(a) == a \notin Punctuation

NoImport == [found |-> FALSE, path |-> <<>>, end |-> 0]

\* ['"]([^'"]+)['"] matched at position q
QuotedAt(c, q) ==
    LET Closing(e) == c[e] \in Quotes /\ \A k \in (q + 1)..(e - 1) : c[k] \notin Quotes
    IN  IF q >= 1 /\ q <= Len(c) /\ c[q] \in Quotes /\ \E e \in (q + 2)..Len(c) : Closing(e)
        THEN LET e == CHOOSE e \in (q + 2)..Len(c) : Closing(e)
             IN  [found |-> TRUE, path |-> SubSeq(c, q + 1, e - 1), end |-> e]
        ELSE NoImport

\* \s*: the position after the whitespace that starts at position i
SkipSpace(c, i) ==
    CHOOSE j \in i..(Len(c) + 1) :
        /\ \A k \in i..(j - 1) : c[k] \in Whitespace
        /\ j = Len(c) + 1 \/ c[j] \notin Whitespace

\* \S*: the position after the non-whitespace that starts at position i
SkipWord(c, i) ==
    CHOOSE j \in i..(Len(c) + 1) :
        /\ \A k \in i..(j - 1) : c[k] \notin Whitespace
        /\ j = Len(c) + 1 \/ c[j] \in Whitespace

\* /import\s+(?:[\w\s{},*]+)\s+from\s+['"]([^'"]+)['"]/ matched at position i:
\* the clause is greedy, so the match uses the last `from` that completes it
jsImportAt(c, i) ==
    LET Completes(j) ==
            /\ c[j] = "from"
            /\ c[i + 1] \in Whitespace
            /\ c[j - 1] \in Whitespace
            /\ \A k \in (i + 1)..(j - 1) : ClauseAtom(c[k])
            /\ SkipSpace(c, j + 1) > j + 1
            /\ QuotedAt(c, SkipSpace(c, j + 1)).found
        froms == {j \in (i + 4)..Len(c) : Completes(j)}
    IN  IF c[i] = "import" /\ froms # {}
        THEN QuotedAt(c, SkipSpace(c, (CHOOSE j \in froms : \A k \in froms : k <= j) + 1))
        ELSE NoImport

\* /import\s+['"]([^'"]+)['"]/ matched at position i
sideEffectImportAt(c, i) ==
    IF c[i] = "import" /\ SkipSpace(c, i + 1) > i + 1
    THEN QuotedAt(c, SkipSpace(c, i + 1))
    ELSE NoImport

\* /require\(['"]([^'"]+)['"]\)/ matched at position i
requireAt(c, i) ==
    LET q == QuotedAt(c, i + 1)
    IN  IF c[i] = "require(" /\ q.found /\ q.end < Len(c) /\ c[q.end + 1] = ")"
        THEN [q EXCEPT !.end = q.end + 1]
        ELSE NoImport

\* /from\s+(\S+)\s+import/ matched at position i
pyFromAt(c, i) ==
    LET p == SkipSpace(c, i + 1)
        e == SkipWord(c, p)
        m == SkipSpace(c, e)
    IN  IF c[i] = "from" /\ p > i + 1 /\ e > p /\ m > e /\ m <= Len(c) /\ c[m] = "import"
        THEN [found |-> TRUE, path |-> SubSeq(c, p, e - 1), end |-> m]
        ELSE NoImport

\* /^import\s+(\S+)/m matched at position i
pyImportAt(c, i) ==
    LET p == SkipSpace(c, i + 1)
        e == SkipWord(c, p)
    IN  IF c[i] = "import" /\ (i = 1 \/ c[i - 1] = "\n") /\ p > i + 1 /\ e > p
        THEN [found |-> TRUE, path |-> SubSeq(c, p, e - 1), end |-> e - 1]
        ELSE NoImport

MatchAt(c, i, regex) ==
    CASE regex = "jsImportRegex" -> jsImportAt(c, i)
      [] regex = "sideEffectImportRegex" -> sideEffectImportAt(c, i)
      [] regex = "requireRegex" -> requireAt(c, i)
      [] regex = "pyFromRegex" -> pyFromAt(c, i)
      [] regex = "pyImportRegex" -> pyImportAt(c, i)

RECURSIVE ExecAll(_, _, _)
\* while ((match = regex.exec(content)) !== null) imports.push(match[1]), from position i on
ExecAll(c, i, regex) ==
    IF i > Len(c) THEN <<>>
    ELSE LET m == MatchAt(c, i, regex)
         IN  IF m.found
             THEN <<m.path>> \o ExecAll(c, m.end + 1, regex)
             ELSE ExecAll(c, i + 1, regex)

\* fileName.match(/\.(ts|tsx|js|jsx)$/)
IsScript(fileName) ==
    /\ Len(fileName) >= 2
    /\ fileName[Len(fileName) - 1] = "."
    /\ fileName[Len(fileName)] \in {"ts", "tsx", "js", "jsx"}

extractImports(content, fileName) ==
    IF IsScript(fileName)
    THEN ExecAll(content, 1, "jsImportRegex")
         \o ExecAll(content, 1, "sideEffectImportRegex")
         \o ExecAll(content, 1, "requireRegex")
    ELSE IF EndsWith(fileName, <<".", "py">>)
    THEN ExecAll(content, 1, "pyFromRegex") \o ExecAll(content, 1, "pyImportRegex")
    ELSE <<>>

\* a mistaken node: the kind of the record is lost
GraphNode_NoKind(f) == [id |-> f.name, name |-> f.name, type |-> "file", val |-> 1]

GraphNode(f) == [id |-> f.name, name |-> f.name, type |-> f.type, val |-> 1]

GraphEdge(source, target) == [source |-> source, target |-> target]

RECURSIVE LinksOfImports(_, _, _)
\* imports.forEach(imp => ...): the links pushed for one source file
LinksOfImports(source, imports, fileNames) ==
    IF imports = <<>> THEN <<>>
    ELSE LET targetName == FindTarget(fileNames, Head(imports))
         IN  (IF targetName.found /\ targetName.name # <<>>
              THEN <<GraphEdge(source, targetName.name)>>
              ELSE <<>>)
             \o LinksOfImports(source, Tail(imports), fileNames)

RECURSIVE LinksOfFiles(_, _)
\* files.forEach(file => ...): only files of type 'file' are scanned for imports
LinksOfFiles(fs, fileNames) ==
    IF fs = <<>> THEN <<>>
    ELSE (IF Head(fs).type = "file"
          THEN LinksOfImports(Head(fs).name, extractImports(Head(fs).content, Head(fs).name),
                              fileNames)
          ELSE <<>>)
         \o LinksOfFiles(Tail(fs), fileNames)

generateDependencyGraph(fs) ==
    [nodes |-> [i \in DOMAIN fs |-> GraphNode(fs[i])],
     links |-> LinksOfFiles(fs, InsertionOrder([i \in DOMAIN fs |-> fs[i].name]))]

----------------------------------------------------------------------------
(* Specification of the graph view: a corpus is in place, the view renders  *)
(* its graph, files are removed                                             *)

MaxGraphFiles == 3

UtilsFile ==
    File("f1", <<"src", "/", "utils", ".", "ts">>,
         <<"export", " ", "const", " ", "x", " ", "=", " ", "1">>, "file", "")

HelperFile ==
    File("f2", <<"src", "/", "helper", ".", "ts">>,
         <<"import", " ", "'", ".", "/", "utils", "'", ";", "\n",
           "export", " ", "const", " ", "h", " ", "=", " ", "2">>, "file", "")

MainFile ==
    File("f3", <<"src", "/", "main", ".", "ts">>,
         <<"import", " ", "{", " ", "x", " ", "}", " ", "from", " ", "'", ".", "/", "utils", "'">>,
         "file", "")

IndexFile ==
    File("f4", <<"lib", "/", "index", ".", "js">>,
         <<"const", " ", "h", " ", "=", " ", "require(", "'", ".", ".", "/", "src", "/", "helper", "'", ")", ";", "\n",
           "import", " ", "y", " ", "from", " ", "\"", "lodash", "\"">>,
         "file", "")

ScriptFile ==
    File("f5", <<"tools", "/", "run", ".", "py">>,
         <<"from", " ", "utils", " ", "import", " ", "x", "\n", "import", " ", "os">>,
         "file", "")

TraceFile ==
    File("f6", <<"trace", ".", "ts">>,
         <<"import", " ", "{", " ", "x", " ", "}", " ", "from", " ", "'", ".", "/", "helper", "'">>,
         "log", "")

\* a second upload of src/utils.ts: the same name under another id
UtilsAgain ==
    File("f7", <<"src", "/", "utils", ".", "ts">>,
         <<"export", " ", "const", " ", "x", " ", "=", " ", "1">>, "file", "")

\* a file without extension
RunnerFile ==
    File("f8", <<"bin", "/", "run">>, <<"exec", " ", "node", " ", "cli">>, "file", "")

CliFile ==
    File("f9", <<"lib", "/", "cli", ".", "js">>,
         <<"require(", "'", "bin", "/", "run", "'", ")">>, "file", "")

GraphPool ==
    {UtilsFile, HelperFile, MainFile, IndexFile, ScriptFile, TraceFile, UtilsAgain, RunnerFile,
     CliFile}

\* the corpora of up to n different files of the pool, in every order
Corpora(n) ==
    UNION { {c \in [1..k -> GraphPool] : \A i, j \in 1..k : i # j => c[i] # c[j]} : k \in 0..n }

\* removeFile: setFiles(files.filter(f => f.id !== id))
removeFile ==
    /\ \E i \in DOMAIN files :
         LET Kept(f) == f.id # files[i].id
         IN  files' = SelectSeq(files, Kept)
    /\ UNCHANGED <<input, agentMode, thinkingBudget, agentState, messages, now>>
    /\ UNCHANGED <<graphData, graphDeps, tasks>>
    /\ UNCHANGED sendVars
    /\ UNCHANGED commitVars
    /\ UNCHANGED clientVars

\* a render after `files` changed: useMemo recomputes graphData
RenderGraph ==
    /\ graphDeps # files
    /\ graphData' = generateDependencyGraph(files)
    /\ graphDeps' = files
    /\ UNCHANGED <<input, agentMode, thinkingBudget, agentState, messages, files, now, tasks>>
    /\ UNCHANGED sendVars
    /\ UNCHANGED commitVars
    /\ UNCHANGED clientVars

InitGraph ==
    /\ input = <<>>
    /\ agentMode = "ARCHITECT"
    /\ thinkingBudget = DefaultBudget
    /\ agentState = "idle"
    /\ messages = <<DEFAULT_MESSAGE>>
    /\ files \in Corpora(MaxGraphFiles)
    /\ now = 1
    /\ hpc = "idle"
    /\ loc = NoLoc
    /\ calls = <<>>
    /\ requests = 0
    /\ graphData = [nodes |-> <<>>, links |-> <<>>]
    /\ graphDeps = <<>>
    /\ tasks = <<>>
    /\ github = InitialRemote
    /\ modal = ClosedModal
    /\ cpc = "idle"
    /\ retries = 0
    /\ log = <<>>
    /\ lastOutcome = NoOutcome
    /\ result = <<>>

NextGraph == RenderGraph \/ removeFile

SpecGraph == InitGraph /\ [][NextGraph]_vars

----------------------------------------------------------------------------
(* Properties of the graph (checked under SpecGraph)                        *)

Range(q) == {q[i] : i \in DOMAIN q}

CorpusNames == {graphDeps[i].name : i \in DOMAIN graphDeps}

Links == Range(graphData.links)

\* the references found in the file, when the file is scanned at all
References(f) == IF f.type = "file" THEN Range(extractImports(f.content, f.name)) ELSE {}

\* the part of the name before its last "." (empty when it has none)
Stem(name) ==
    LET dots == {i \in DOMAIN name : name[i] = "."}
    IN  IF dots = {} THEN <<>>
        ELSE SubSeq(name, 1, (CHOOSE i \in dots : \A k \in dots : k <= i) - 1)

\* the part of the reference after its last "/" (the reference itself when that is empty)
FinalSegment(imp) ==
    LET slashes == {i \in DOMAIN imp : imp[i] = "/"}
        after == IF slashes = {} THEN imp
                 ELSE SubSeq(imp, (CHOOSE i \in slashes : \A k \in slashes : k <= i) + 1, Len(imp))
    IN  IF after = <<>> THEN imp ELSE after

\* the extension-stripped name equals the final segment or ends with "/" and the segment
SegmentMatch(name, imp) ==
    LET stem == Stem(name)
        seg == FinalSegment(imp)
    IN  \/ stem = seg
        \/ /\ Len(stem) > Len(seg)
           /\ stem[Len(stem) - Len(seg)] = "/"
           /\ \A i \in 1..Len(seg) : stem[Len(stem) - Len(seg) + i] = seg[i]

\* C20: a reference that is not itself a file name gets an edge exactly when
\* some corpus file's extension-stripped name equals the reference's final
\* path segment or ends with "/" followed by it, and the edge goes to such a
\* file; with src/utils.ts and src/helper.ts in the corpus, src/main.ts,
\* which imports './utils', has an edge to src/utils.ts and none to
\* src/helper.ts.
C20_ImportResolution ==
    /\ \A i \in DOMAIN graphDeps :
         LET f == graphDeps[i]
         IN  /\ \A imp \in References(f) :
                   (imp \notin CorpusNames /\ \E n \in CorpusNames : SegmentMatch(n, imp)) =>
                       \E l \in Links : l.source = f.name /\ SegmentMatch(l.target, imp)
             /\ \A l \in Links :
                   l.source = f.name =>
                       /\ l.target \in CorpusNames
                       /\ \E imp \in References(f) : l.target = imp \/ SegmentMatch(l.target, imp)
    /\ ({MainFile, UtilsFile, HelperFile} \subseteq Range(graphDeps)) =>
         /\ GraphEdge(MainFile.name, UtilsFile.name) \in Links
         /\ GraphEdge(MainFile.name, HelperFile.name) \notin Links

C20_Witness ==
    /\ graphDeps = <<HelperFile, MainFile, UtilsFile>>
    /\ GraphEdge(MainFile.name, UtilsFile.name) \in Links
    /\ GraphEdge(HelperFile.name, UtilsFile.name) \in Links
    /\ Cardinality(Links) = 2

----------------------------------------------------------------------------
(* The session with several handlers in progress.  A handler suspended at   *)
(* an await is a task: the values of its closure and locals, and the        *)
(* sendMessageToGemini calls it has made.  A call resolves in one step with *)
(* one of the strings sendMessageToGemini returns (see SpecClient).         *)

MaxHandlers == 2

Task(kind, l, cs, newFiles) == [kind |-> kind, loc |-> l, calls |-> cs, newFiles |-> newFiles]

\* what the backend does with a call, retries included
ConcurrentOutcomes ==
    { Resolved(<<"<thinking>", "sim", "</thinking>", "STATUS: ", "VERIFIED">>),
      Rejected(ApiError("400", <<"API key not valid.">>)) }

\* the string sendMessageToGemini returns when the backend keeps answering with outcome o
ReturnOf(o) ==
    IF o.ok
    THEN (IF o.text = <<>> THEN NoTextResponse ELSE o.text)
    ELSE IF isQuotaError(o.error)
    THEN QuotaExhaustedMessage(MAX_RETRIES)
    ELSE ErrorMessage(o.error)

\* a mistaken read: the corpus of the latest render instead of the handler's closure
ContextFiles_Current(t) == files

\* the `files` a suspended handleSend passes to its next call: the array its closure captured
ContextFiles(t) == t.loc.files

\* the awaited call has resolved with the string r
Returned(cs, o) == [cs EXCEPT ![Len(cs)].done = TRUE,
                              ![Len(cs)].failed = ~o.ok,
                              ![Len(cs)].returned = ReturnOf(o)]

\* the handlers invoked so far: each reads the clock once, an upload and an import
\* when they resume
Handlers ==
    (now - 1) + Cardinality({i \in DOMAIN tasks : tasks[i].kind \in {"upload", "import"}})

\* handleSend up to its first await, when other handlers may be in progress
SendStarted ==
    /\ Handlers < MaxHandlers
    /\ ~(Trim(input) = <<>> /\ Len(files) = 0)
    /\ LET userMsg == Message(<<"", now>>, "user", input, FALSE, <<>>, FALSE)
           thinkingMsgId == <<"thinking-", now>>
           l == [NoLoc EXCEPT !.userText = input, !.thinkingMsgId = thinkingMsgId,
                              !.agentMode = agentMode, !.thinkingBudget = thinkingBudget,
                              !.files = files]
           call == IF agentMode = "DEBUG"
                   THEN Call("draft", input, "ARCHITECT", files, <<>>, thinkingBudget)
                   ELSE Call("standard", input, agentMode, files, <<>>, thinkingBudget)
       IN  /\ messages' = messages \o <<userMsg, Message(thinkingMsgId, "model", <<>>, FALSE, <<>>, TRUE)>>
           /\ tasks' = Append(tasks, Task("send", l, <<call>>, <<>>))
    /\ input' = <<>>
    /\ agentState' = "analyzing"
    /\ now' = now + 1
    /\ UNCHANGED <<agentMode, thinkingBudget, files, graphData, graphDeps>>
    /\ UNCHANGED sendVars
    /\ UNCHANGED commitVars
    /\ UNCHANGED clientVars

\* the send button: disabled={!input.trim() && files.length === 0 || agentState.status !== 'idle'}
ClickSend ==
    /\ ~((Trim(input) = <<>> /\ Len(files) = 0) \/ agentState # "idle")
    /\ SendStarted

\* Enter without Shift in the textarea: handleSend() is called whatever agentState is
handleKeyDown == SendStarted

Remove(q, i) == SubSeq(q, 1, i - 1) \o SubSeq(q, i + 1, Len(q))

\* handleSend resumes after the awaited call of task i resolved
SendResumed(i, o) ==
    LET t == tasks[i]
        cs == Returned(t.calls, o)
        r == ReturnOf(o)
        phase == t.calls[Len(t.calls)].phase
        draft == processResponse(IF phase = "draft" THEN r ELSE t.loc.draftResponseText)
        verification == processResponse(IF phase = "verify" THEN r ELSE cs[2].returned)
    IN  CASE phase = "draft" ->
               LET prompt == verificationPrompt(draft.text, t.loc.userText)
                   l == [t.loc EXCEPT !.draftResponseText = r, !.verificationPrompt = prompt]
                   call == Call("verify", prompt, "ARCHITECT", ContextFiles(t),
                                <<HistoryItem("user", t.loc.userText), HistoryItem("model", r)>>,
                                QABudget)
               IN  /\ agentState' = "verifying"
                   /\ tasks' = [tasks EXCEPT ![i] = Task("send", l, Append(cs, call), <<>>)]
                   /\ UNCHANGED messages
          [] phase = "verify" /\ Verified(verification.text) ->
               /\ messages' = UpdateMessage(messages, t.loc.thinkingMsgId, draft.text, TRUE,
                                            QAThoughts(draft, verification))
               /\ agentState' = "idle"
               /\ tasks' = Remove(tasks, i)
          [] phase = "verify" /\ ~Verified(verification.text) ->
               LET call == Call("refine", refinementPrompt(verification.text), "ARCHITECT",
                                ContextFiles(t),
                                <<HistoryItem("user", t.loc.userText),
                                  HistoryItem("model", t.loc.draftResponseText),
                                  HistoryItem("user", t.loc.verificationPrompt),
                                  HistoryItem("model", r)>>,
                                RefineBudget)
               IN  /\ agentState' = "writing"
                   /\ tasks' = [tasks EXCEPT ![i] = Task("send", t.loc, Append(cs, call), <<>>)]
                   /\ UNCHANGED messages
          [] phase = "refine" ->
               LET finalFix == processResponse(r)
               IN  /\ messages' = UpdateMessage(messages, t.loc.thinkingMsgId, finalFix.text, TRUE,
                                                RepairThoughts(draft, verification, finalFix))
                   /\ agentState' = "idle"
                   /\ tasks' = Remove(tasks, i)
          [] phase = "standard" ->
               LET parsed == processResponse(r)
               IN  /\ messages' = UpdateMessage(messages, t.loc.thinkingMsgId, parsed.text,
                                                parsed.hasThoughts, parsed.thoughts)
                   /\ agentState' = "idle"
                   /\ tasks' = Remove(tasks, i)

\* triggerAutoAnalysis resumes after its call resolved
AutoResumed(i, o) ==
    LET parsed == processResponse(ReturnOf(o))
    IN  /\ messages' = UpdateMessage(messages, tasks[i].loc.thinkingMsgId, parsed.text,
                                     parsed.hasThoughts, parsed.thoughts)
        /\ agentState' = "idle"
        /\ tasks' = Remove(tasks, i)

\* a sendMessageToGemini promise resolves and the handler awaiting it runs to its next await or its end
CallResolved ==
    /\ \E i \in DOMAIN tasks : \E o \in ConcurrentOutcomes :
         /\ tasks[i].kind \in {"send", "auto"}
         /\ IF tasks[i].kind = "send" THEN SendResumed(i, o) ELSE AutoResumed(i, o)
    /\ UNCHANGED <<input, agentMode, thinkingBudget, files, now, graphData, graphDeps>>
    /\ UNCHANGED sendVars
    /\ UNCHANGED commitVars
    /\ UNCHANGED clientVars

\* a file chosen in the browser's file dialog; id is what Math.random().toString(36).substring(7) gives for it
BrowserFile(id, name, type, content) == [id |-> id, name |-> name, type |-> type, content |-> content]

\* reader.onload of handleFileUpload: the FileContext pushed for a chosen file
ReadFile(file) ==
    LET isImage == file.type # <<>> /\ Head(file.type) = "image/"
        finalContent == IF isImage THEN Split(file.content, ",")[2] ELSE file.content
        type == IF isImage THEN "image"
                ELSE IF EndsWith(file.name, <<".", "log">>) THEN "log"
                ELSE IF EndsWith(file.name, <<".", "json">>) \/ EndsWith(file.name, <<".", "csv">>)
                THEN "metric"
                ELSE IF Includes(file.name, <<"issue">>) \/ Includes(file.name, <<"report">>)
                THEN "issue"
                ELSE "file"
    IN  File(file.id, file.name, finalContent, type,
             IF file.type = <<>> THEN "" ELSE file.type[1] \o file.type[2])

ChosenFiles ==
    { <<BrowserFile("u1", <<"src", "/", "app", ".", "ts">>, <<>>,
                    <<"import", " ", "{", " ", "x", " ", "}", " ", "from", " ", "'", ".", "/", "utils", "'">>)>>,
      <<BrowserFile("u2", <<"shot", ".", "png">>, <<"image/", "png">>,
                    <<"data:image/png;base64", ",", "iVBORw0KGgo=">>)>> }

\* handleFileUpload up to its first await: the chosen files are being read
handleFileUpload ==
    /\ Handlers < MaxHandlers
    /\ \E chosen \in ChosenFiles :
         /\ \A k \in DOMAIN chosen : \A j \in DOMAIN files : files[j].id # chosen[k].id
         /\ tasks' = Append(tasks, Task("upload",
                                        [NoLoc EXCEPT !.thinkingBudget = thinkingBudget,
                                                      !.files = files],
                                        <<>>, chosen))
    /\ agentState' = "analyzing"
    /\ UNCHANGED <<input, agentMode, thinkingBudget, messages, files, now, graphData, graphDeps>>
    /\ UNCHANGED sendVars
    /\ UNCHANGED commitVars
    /\ UNCHANGED clientVars

\* Math.max(thinkingBudget, 2048)
AutoBudget(budget) == IF budget > 2048 THEN budget ELSE 2048

AutoPrompt(newFileCount, source) ==
    IF source = "github"
    THEN <<"I have just imported a GitHub repository with ", newFileCount, " source files.">>
    ELSE <<"I have just uploaded ", newFileCount, " new file(s) to the workspace.">>

\* handleFileUpload resumes when every chosen file is read: it replaces the corpus by
\* the one of its closure extended with the new files, and enters triggerAutoAnalysis,
\* which runs up to its await
FilesRead ==
    /\ \E i \in DOMAIN tasks :
         /\ tasks[i].kind = "upload"
         /\ LET t == tasks[i]
                newFiles == [k \in DOMAIN t.newFiles |-> ReadFile(t.newFiles[k])]
                updatedFiles == t.loc.files \o newFiles
                thinkingMsgId == <<"auto-think-", now>>
                call == Call("auto", AutoPrompt(Len(newFiles), "upload"), "ARCHITECT",
                             updatedFiles, <<>>, AutoBudget(t.loc.thinkingBudget))
            IN  /\ files' = updatedFiles
                /\ messages' = Append(messages, Message(thinkingMsgId, "model", <<>>, FALSE, <<>>, TRUE))
                /\ tasks' = [tasks EXCEPT ![i] =
                                Task("auto", [t.loc EXCEPT !.thinkingMsgId = thinkingMsgId,
                                                          !.files = updatedFiles],
                                     <<call>>, <<>>)]
    /\ agentState' = "analyzing"
    /\ now' = now + 1
    /\ UNCHANGED <<input, agentMode, thinkingBudget, graphData, graphDeps>>
    /\ UNCHANGED sendVars
    /\ UNCHANGED commitVars
    /\ UNCHANGED clientVars

\* the corpus restored from localStorage when the App is constructed
StoredCorpora == { <<>>, <<UtilsFile>> }

\* the modes of a session, with the budget handleModeChange sets for them
SessionModes == {"ARCHITECT", "DEBUG"}

InitSession ==
    /\ input = <<>>
    /\ agentMode \in SessionModes
    /\ thinkingBudget = DefaultBudget
    /\ agentState = "idle"
    /\ messages = <<DEFAULT_MESSAGE>>
    /\ files \in StoredCorpora
    /\ now = 1
    /\ hpc = "idle"
    /\ loc = NoLoc
    /\ calls = <<>>
    /\ requests = 0
    /\ graphData = [nodes |-> <<>>, links |-> <<>>]
    /\ graphDeps = <<>>
    /\ tasks = <<>>
    /\ github = InitialRemote
    /\ modal = ClosedModal
    /\ cpc = "idle"
    /\ retries = 0
    /\ log = <<>>
    /\ lastOutcome = NoOutcome
    /\ result = <<>>

NextSession ==
    \/ SetInput
    \/ ClickSend
    \/ handleKeyDown
    \/ CallResolved
    \/ handleFileUpload
    \/ FilesRead
    \/ removeFile

SpecSession == InitSession /\ [][NextSession]_vars

----------------------------------------------------------------------------
(* Properties of the session (checked under SpecSession)                    *)

\* the handleSend invocations in progress
SendsInFlight == {i \in DOMAIN tasks : tasks[i].kind = "send"}

\* C16: at most one user request is in flight: no handleSend starts while
\* another one is in progress.
C16_OneRequestInFlight == Cardinality(SendsInFlight) <= 1

\* C17: every call a handleSend invocation makes is given the corpus that was
\* current when the invocation started, whatever happens to `files`
\* meanwhile: a starting invocation captures the current corpus, its
\* captured corpus never changes, and each of its calls passes it.
C17_CorpusSnapshot ==
    [][ /\ \A i \in DOMAIN tasks' :
             tasks'[i].kind = "send" =>
                 \A k \in DOMAIN tasks'[i].calls :
                     tasks'[i].calls[k].files = tasks'[i].loc.files
        /\ (Len(tasks') = Len(tasks) + 1 /\ tasks'[Len(tasks')].kind = "send") =>
               tasks'[Len(tasks')].loc.files = files
        /\ Len(tasks') = Len(tasks) =>
               \A i \in DOMAIN tasks :
                   (tasks[i].kind = "send" /\ tasks'[i].kind = "send") =>
                       tasks'[i].loc.files = tasks[i].loc.files ]_vars

C17_Witness ==
    \E i \in DOMAIN tasks :
        /\ tasks[i].kind = "send"
        /\ Len(tasks[i].calls) = 3
        /\ tasks[i].loc.files = <<UtilsFile>>
        /\ files # tasks[i].loc.files
        /\ \A k \in 1..3 : tasks[i].calls[k].files = <<UtilsFile>>

\* a pending agent turn: empty visible text, no trace, marked as thinking
Pending(m) == m.role = "model" /\ m.text = <<>> /\ m.isThinking /\ ~m.hasThoughts

TurnsWithId(msgs, id) == {k \in DOMAIN msgs : msgs[k].id = id}

\* every request in progress has exactly one turn, and that turn is pending
OnePendingTurnEach ==
    \A i \in DOMAIN tasks :
        tasks[i].kind \in {"send", "auto"} =>
            /\ Cardinality(TurnsWithId(messages, tasks[i].loc.thinkingMsgId)) = 1
            /\ \A k \in TurnsWithId(messages, tasks[i].loc.thinkingMsgId) : Pending(messages[k])

\* a step that starts a request appends its turns, the last one a pending turn with a fresh id
StartsRequest ==
    Len(messages') > Len(messages) =>
        /\ Len(messages') - Len(messages) \in {1, 2}
        /\ SubSeq(messages', 1, Len(messages)) = messages
        /\ Pending(messages'[Len(messages')])
        /\ TurnsWithId(messages, messages'[Len(messages')].id) = {}
        /\ \E i \in DOMAIN tasks' :
               tasks'[i].loc.thinkingMsgId = messages'[Len(messages')].id

\* a step that ends a request changes the request's turn and nothing else of the transcript
ResolvesRequest ==
    Len(tasks') < Len(tasks) =>
        LET i == CHOOSE i \in DOMAIN tasks : tasks' = Remove(tasks, i)
            id == tasks[i].loc.thinkingMsgId
        IN  /\ Len(messages') = Len(messages)
            /\ \A k \in DOMAIN messages :
                   IF messages[k].id = id
                   THEN /\ messages'[k].id = id
                        /\ messages'[k].role = "model"
                        /\ ~messages'[k].isThinking
                   ELSE messages'[k] = messages[k]

\* C18: each request creates one pending agent turn with empty visible text;
\* when the request resolves, that turn (matched by id) is updated in place:
\* the number of turns does not change, no other turn changes, and no second
\* turn with the response is added.  Between start and resolution the
\* transcript is not touched by the request.
C18_PendingTurnInPlace ==
    /\ []OnePendingTurnEach
    /\ [][ /\ StartsRequest
           /\ ResolvesRequest
           /\ (Len(messages') = Len(messages) /\ Len(tasks') >= Len(tasks)) =>
                  messages' = messages
           /\ Len(messages') >= Len(messages) ]_vars

C18_Witness ==
    /\ Len(messages) = 4
    /\ tasks = <<>>
    /\ github = InitialRemote
    /\ modal = ClosedModal
    /\ \E k, j \in DOMAIN messages :
          /\ messages[k].id[1] = "auto-think-"
          /\ messages[j].id[1] = "thinking-"
          /\ ~messages[k].isThinking /\ messages[k].text # <<>>
          /\ ~messages[j].isThinking /\ messages[j].hasThoughts

----------------------------------------------------------------------------
(* Further properties of the graph (checked under SpecGraph)                *)

\* C21: a reference that is exactly the name of a corpus file gets its edge
\* to that file, whatever other files match it by the extension-stripped
\* rule and whatever the order of the corpus.
C21_ExactMatchFirst ==
    \A i \in DOMAIN graphDeps :
        \A imp \in References(graphDeps[i]) :
            imp \in CorpusNames => GraphEdge(graphDeps[i].name, imp) \in Links

NodeNames == {graphData.nodes[k].name : k \in DOMAIN graphData.nodes}

\* the reference matches some file of the corpus, exactly or by the extension-stripped rule
Resolvable(imp) == \E n \in CorpusNames : n = imp \/ SegmentMatch(n, imp)

\* the number of references of record i that match some file
ResolvableCount(i) ==
    LET imports == IF graphDeps[i].type = "file"
                   THEN extractImports(graphDeps[i].content, graphDeps[i].name)
                   ELSE <<>>
    IN  Cardinality({j \in DOMAIN imports : Resolvable(imports[j])})

RECURSIVE SumTo(_)
SumTo(n) == IF n = 0 THEN 0 ELSE ResolvableCount(n) + SumTo(n - 1)

\* C22: the source and the target of every edge are names of nodes of the
\* graph, and there are exactly as many edges as there are references that
\* match a file: a reference that matches no file adds no edge.
C22_EdgesBetweenNodes ==
    /\ \A l \in Links : l.source \in NodeNames /\ l.target \in NodeNames
    /\ Len(graphData.links) = SumTo(Len(graphDeps))

C22_Witness ==
    /\ graphDeps = <<IndexFile, HelperFile>>
    /\ graphData.links = <<GraphEdge(IndexFile.name, HelperFile.name)>>
    /\ <<"lodash">> \in References(IndexFile)
    /\ <<"lodash">> \notin NodeNames

\* C23: the graph has one node per file record, in order, with the record's
\* name and kind, for records of every kind; the source of every edge is the
\* name of a record of kind 'file', and a record of another kind whose name
\* no 'file' record shares is the source of no edge.
C23_OneNodePerRecord ==
    /\ Len(graphData.nodes) = Len(graphDeps)
    /\ \A i \in DOMAIN graphDeps :
          /\ graphData.nodes[i].name = graphDeps[i].name
          /\ graphData.nodes[i].id = graphDeps[i].name
          /\ graphData.nodes[i].type = graphDeps[i].type
    /\ \A l \in Links :
          \E i \in DOMAIN graphDeps : graphDeps[i].name = l.source /\ graphDeps[i].type = "file"

C23_Witness ==
    /\ graphDeps = <<TraceFile, UtilsFile, HelperFile>>
    /\ Len(graphData.nodes) = 3
    /\ graphData.nodes[1].type = "log"
    /\ Links = {GraphEdge(HelperFile.name, UtilsFile.name)}

----------------------------------------------------------------------------
(* The GitHub service: fetchGithubRepo                                      *)

\* the URLs typed into the import field
GithubUrls ==
    { <<"https://", "github.com", "/", "acme", "/", "tools", ".git">>,
      <<"https://", "gitlab.com", "/", "acme", "/", "tools">> }

\* the end of the longest run of atoms other than "/" that starts at position from
RunEnd(s, from) ==
    LET stops == {j \in from..Len(s) : s[j] = "/"}
    IN  IF stops = {} THEN Len(s) ELSE (CHOOSE j \in stops : \A k \in stops : j <= k) - 1

\* url.match(/github\.com\/([^\/]+)\/([^\/]+)/), and the repo without its trailing .git
parseGithubUrl(url) ==
    LET Matches(i) ==
            /\ url[i] = "github.com"
            /\ i + 2 <= Len(url)
            /\ url[i + 1] = "/"
            /\ url[i + 2] # "/"
            /\ RunEnd(url, i + 2) + 2 <= Len(url)
            /\ url[RunEnd(url, i + 2) + 2] # "/"
        starts == {i \in DOMAIN url : Matches(i)}
    IN  IF starts = {} THEN [ok |-> FALSE, owner |-> <<>>, repo |-> <<>>]
        ELSE LET i == CHOOSE k \in starts : \A m \in starts : k <= m
                 ownerEnd == RunEnd(url, i + 2)
                 raw == SubSeq(url, ownerEnd + 2, RunEnd(url, ownerEnd + 2))
             IN  [ok |-> TRUE,
                  owner |-> SubSeq(url, i + 2, ownerEnd),
                  repo |-> IF raw[Len(raw)] = ".git" /\ Len(raw) > 0
                           THEN SubSeq(raw, 1, Len(raw) - 1)
                           ELSE raw]

\* the content field of the blob API: base64 text broken by newlines
Base64(text) == [i \in DOMAIN text |-> <<"b64", text[i]>>]

LineBreak == <<"ws", "\n">>

\* contentData.content.replace(/\s/g, '')
StripWhitespace(encoded) ==
    LET Data(a) == a[1] # "ws"
    IN  SelectSeq(encoded, Data)

\* atob throws on a character outside the base64 alphabet
IsBase64(encoded) == \A i \in DOMAIN encoded : encoded[i][1] = "b64"

\* atob followed by TextDecoder('utf-8').decode
DecodeBase64(encoded) == [i \in DOMAIN encoded |-> encoded[i][2]]

\* a node of the recursive tree listing, with what a GET of its url answers
TreeNode(path, type, sha, contentOk, content) ==
    [path |-> path, type |-> type, sha |-> sha, contentOk |-> contentOk, content |-> content]

\* what api.github.com answers for a repository
Remote(status, treeOk, tree) == [status |-> status, treeOk |-> treeOk, tree |-> tree]

InitPyContent == <<LineBreak>>

ToolsRepo ==
    Remote(200, TRUE,
           << TreeNode(<<"src">>, "tree", "t1", TRUE, <<>>),
              TreeNode(<<"src", "/", "utils", ".", "ts">>, "blob", "s1", TRUE,
                       Base64(<<"export", " ", "const", " ", "x", " ", "=", " ", "2">>)),
              TreeNode(<<"README", ".", "MD">>, "blob", "s2", TRUE,
                       <<<<"b64", "#">>, LineBreak, <<"b64", " ">>, <<"b64", "tools">>>>),
              TreeNode(<<"logo", ".", "png">>, "blob", "s3", TRUE, Base64(<<"iVBORw0KGgo=">>)) >>)

PackagesRepo ==
    Remote(200, TRUE,
           << TreeNode(<<"a", "/", "__init__", ".", "py">>, "blob", "s0", TRUE, InitPyContent),
              TreeNode(<<"b", "/", "__init__", ".", "py">>, "blob", "s0", TRUE, InitPyContent),
              TreeNode(<<"data", ".", "json">>, "blob", "s4", FALSE, <<>>),
              TreeNode(<<"bad", ".", "md">>, "blob", "s5", TRUE, <<<<"bad", "*">>>>) >>)

Remotes ==
    { ToolsRepo, PackagesRepo, Remote(404, FALSE, <<>>), Remote(403, FALSE, <<>>),
      Remote(500, FALSE, <<>>), Remote(200, FALSE, <<>>) }

\* String.prototype.toLowerCase on the atoms of a path
LowerAtom(a) ==
    CASE a = "README" -> "readme"
      [] a = "MD" -> "md"
      [] OTHER -> a

toLowerCase(s) == [i \in DOMAIN s |-> LowerAtom(s[i])]

relevantExtensions ==
    { <<".", "ts">>, <<".", "tsx">>, <<".", "js">>, <<".", "jsx">>, <<".", "py">>,
      <<".", "json">>, <<".", "md">>, <<".", "go">>, <<".", "rs">>, <<".", "java">>,
      <<".", "c">>, <<".", "cpp">>, <<".", "h">> }

\* .slice(0, 15)
MaxPriorityFiles == 15

priorityFiles(tree) ==
    LET IsBlob(node) == node.type = "blob"
        IsPriority(node) ==
            LET path == toLowerCase(node.path)
            IN  \/ EndsWith(path, <<"readme", ".", "md">>)
                \/ EndsWith(path, <<"package", ".", "json">>)
                \/ \E ext \in relevantExtensions : EndsWith(path, ext)
        wanted == SelectSeq(SelectSeq(tree, IsBlob), IsPriority)
    IN  SubSeq(wanted, 1, IF Len(wanted) < MaxPriorityFiles THEN Len(wanted) ELSE MaxPriorityFiles)

\* the node is fetched and decoded; null when the fetch or the decoding fails
Fetched(node) == node.contentOk /\ IsBase64(StripWhitespace(node.content))

\* the FileContext built for a fetched node: its id is the blob's sha
FetchedFile(node) ==
    LET lowerName == toLowerCase(node.path)
        type == IF EndsWith(lowerName, <<".", "json">>) \/ EndsWith(lowerName, <<".", "csv">>)
                THEN "metric"
                ELSE "file"
    IN  File(node.sha, node.path, DecodeBase64(StripWhitespace(node.content)), type, "text/plain")

\* fetchGithubRepo: the files it resolves with, or the message of the Error it throws
fetchGithubRepo(url, remote) ==
    LET Failure(message) == [ok |-> FALSE, files |-> <<>>, message |-> message]
    IN  IF ~parseGithubUrl(url).ok
        THEN Failure(<<"Invalid GitHub URL. Format: https://github.com/owner/repo">>)
        ELSE IF remote.status = 403
        THEN Failure(<<"GitHub API rate limit exceeded or unauthorized.">>)
        ELSE IF remote.status = 404
        THEN Failure(<<"Repository not found or private.">>)
        ELSE IF remote.status # 200
        THEN Failure(<<"Failed to fetch repository details.">>)
        ELSE IF ~remote.treeOk
        THEN Failure(<<"Failed to fetch file tree.">>)
        ELSE LET nodes == SelectSeq(priorityFiles(remote.tree), Fetched)
             IN  [ok |-> TRUE, files |-> [k \in DOMAIN nodes |-> FetchedFile(nodes[k])],
                  message |-> <<>>]

----------------------------------------------------------------------------
(* The corpus: imports, uploads, applied changes and removals               *)

\* the file names and contents of the code blocks whose Apply button is pressed
ApplyNames ==
    { <<"utils", ".", "ts">>, <<"src", "/", "utils", ".", "ts">>, <<"new", ".", "ts">> }

ApplyContents == { <<"export", " ", "const", " ", "x", " ", "=", " ", "3">> }

\* what Math.random().toString(36).substring(7) gives
RandomIds == {"r1", "r2"}

\* prev.find(f => f.name === fileName || f.name.endsWith('/' + fileName))
Existing(prev, fileName) ==
    LET hits == {i \in DOMAIN prev :
                    prev[i].name = fileName \/ EndsWith(prev[i].name, <<"/">> \o fileName)}
    IN  IF hits = {} THEN [found |-> FALSE, id |-> ""]
        ELSE [found |-> TRUE, id |-> prev[CHOOSE i \in hits : \A k \in hits : i <= k].id]

\* a mistaken update: the record is appended whether or not one matches
ApplyChange_Append(prev, fileName, newContent, id) ==
    Append(prev, File(id, fileName, newContent, "file", ""))

\* the updater handed to setFiles by handleApplyChange
ApplyChange(prev, fileName, newContent, id) ==
    LET existing == Existing(prev, fileName)
    IN  IF existing.found
        THEN [i \in DOMAIN prev |->
                 IF prev[i].id = existing.id
                 THEN [prev[i] EXCEPT !.content = newContent]
                 ELSE prev[i]]
        ELSE Append(prev, File(id, fileName, newContent, "file", ""))

\* the text of the notice; the file name stands between two backquotes
Backquote == "(backquote)"

ApplyNotice(fileName) ==
    <<"> System Notification: Applied changes to ", Backquote>> \o fileName
        \o <<Backquote, ". Base state updated.">>

handleApplyChange ==
    /\ Handlers < MaxHandlers
    /\ \E fileName \in ApplyNames : \E newContent \in ApplyContents : \E id \in RandomIds :
         /\ \A j \in DOMAIN files : files[j].id # id
         /\ files' = ApplyChange(files, fileName, newContent, id)
         /\ messages' = Append(messages, Message(<<"apply-", now>>, "model", ApplyNotice(fileName),
                                                 FALSE, <<>>, FALSE))
    /\ now' = now + 1
    /\ UNCHANGED <<input, agentMode, thinkingBudget, agentState, graphData, graphDeps, tasks>>
    /\ UNCHANGED sendVars
    /\ UNCHANGED commitVars
    /\ UNCHANGED clientVars

\* the import button is disabled while isImporting
isImporting == \E i \in DOMAIN tasks : tasks[i].kind \in {"import", "importAuto"}

ImportTask(kind, l, cs, url) ==
    [kind |-> kind, loc |-> l, calls |-> cs, newFiles |-> <<>>, url |-> url]

\* setTimeout(() => setAgentState({ status: 'idle' }), 2000), not yet fired
ResetTimer == [kind |-> "timer", loc |-> NoLoc, calls |-> <<>>, newFiles |-> <<>>]

\* handleGithubImport up to its await of fetchGithubRepo
handleGithubImport ==
    /\ ~isImporting
    /\ Handlers < MaxHandlers
    /\ \E url \in GithubUrls :
         tasks' = Append(tasks, ImportTask("import",
                                           [NoLoc EXCEPT !.thinkingBudget = thinkingBudget,
                                                         !.files = files,
                                                         !.agentStatus = agentState],
                                           <<>>, url))
    /\ agentState' = "analyzing"
    /\ UNCHANGED <<input, agentMode, thinkingBudget, messages, files, now, graphData, graphDeps>>
    /\ UNCHANGED sendVars
    /\ UNCHANGED commitVars
    /\ UNCHANGED clientVars
\* the template literal's text of a count

NumberText(n) ==
    CASE n = 0 -> "0" [] n = 1 -> "1" [] n = 2 -> "2" [] n = 3 -> "3" [] OTHER -> "n"

ImportNotice(count, url) ==
    <<"> System Notification: Imported ", NumberText(count), " files from ">> \o url
        \o <<". Initializing Analysis Protocol...">>

ImportError(message) == <<"Error: GitHub Import Failed. ">> \o message

\* the finally block of handleGithubImport reads agentState.status of the render that
\* created the handler; status is the value of the latest setAgentState
TimerWanted(t, status) == t.loc.agentStatus = "error"

\* the tasks once handleGithubImport has run its finally block
Finally(i, status) ==
    IF TimerWanted(tasks[i], status)
    THEN [tasks EXCEPT ![i] = ResetTimer]
    ELSE Remove(tasks, i)

\* fetchGithubRepo settles and handleGithubImport resumes: up to the await inside
\* triggerAutoAnalysis when it resolved, through catch and finally when it threw
ImportResolved ==
    /\ \E i \in DOMAIN tasks : \E remote \in Remotes :
         /\ tasks[i].kind = "import"
         /\ LET t == tasks[i]
                r == fetchGithubRepo(t.url, remote)
                updatedFiles == t.loc.files \o r.files
                thinkingMsgId == <<"auto-think-", now>>
                call == Call("auto", AutoPrompt(Len(r.files), "github"), "ARCHITECT",
                             updatedFiles, <<>>, AutoBudget(t.loc.thinkingBudget))
            IN  IF r.ok
                THEN /\ files' = updatedFiles
                     /\ messages' = messages \o
                            << Message(<<"", now>>, "model", ImportNotice(Len(r.files), t.url),
                                       FALSE, <<>>, FALSE),
                               Message(thinkingMsgId, "model", <<>>, FALSE, <<>>, TRUE) >>
                     /\ agentState' = "analyzing"
                     /\ tasks' = [tasks EXCEPT ![i] =
                                     ImportTask("importAuto",
                                                [t.loc EXCEPT !.thinkingMsgId = thinkingMsgId,
                                                              !.files = updatedFiles],
                                                <<call>>, t.url)]
                ELSE /\ files' = files
                     /\ messages' = Append(messages,
                                           Message(<<"", now>>, "model", ImportError(r.message),
                                                   FALSE, <<>>, FALSE))
                     /\ agentState' = "error"
                     /\ tasks' = Finally(i, "error")
    /\ now' = now + 1
    /\ UNCHANGED <<input, agentMode, thinkingBudget, graphData, graphDeps>>
    /\ UNCHANGED sendVars
    /\ UNCHANGED commitVars
    /\ UNCHANGED clientVars

\* the call of triggerAutoAnalysis resolves inside handleGithubImport, which then
\* runs its finally block
ImportAnalysed ==
    /\ \E i \in DOMAIN tasks : \E o \in ConcurrentOutcomes :
         /\ tasks[i].kind = "importAuto"
         /\ LET parsed == processResponse(ReturnOf(o))
            IN  messages' = UpdateMessage(messages, tasks[i].loc.thinkingMsgId, parsed.text,
                                          parsed.hasThoughts, parsed.thoughts)
         /\ tasks' = Finally(i, "idle")
    /\ agentState' = "idle"
    /\ UNCHANGED <<input, agentMode, thinkingBudget, files, now, graphData, graphDeps>>
    /\ UNCHANGED sendVars
    /\ UNCHANGED commitVars
    /\ UNCHANGED clientVars

\* the 2-second timer of the finally block fires
TimerFired ==
    /\ \E i \in DOMAIN tasks :
         /\ tasks[i].kind = "timer"
         /\ tasks' = Remove(tasks, i)
    /\ agentState' = "idle"
    /\ UNCHANGED <<input, agentMode, thinkingBudget, messages, files, now, graphData, graphDeps>>
    /\ UNCHANGED sendVars
    /\ UNCHANGED commitVars
    /\ UNCHANGED clientVars

InitCorpus ==
    /\ input = <<>>
    /\ agentMode = "ARCHITECT"
    /\ thinkingBudget = DefaultBudget
    /\ agentState = "idle"
    /\ messages = <<DEFAULT_MESSAGE>>
    /\ files \in StoredCorpora
    /\ now = 1
    /\ hpc = "idle"
    /\ loc = NoLoc
    /\ calls = <<>>
    /\ requests = 0
    /\ graphData = [nodes |-> <<>>, links |-> <<>>]
    /\ graphDeps = <<>>
    /\ tasks = <<>>
    /\ github = InitialRemote
    /\ modal = ClosedModal
    /\ cpc = "idle"
    /\ retries = 0
    /\ log = <<>>
    /\ lastOutcome = NoOutcome
    /\ result = <<>>

NextCorpus ==
    \/ handleFileUpload
    \/ FilesRead
    \/ CallResolved
    \/ handleGithubImport
    \/ ImportResolved
    \/ ImportAnalysed
    \/ TimerFired
    \/ handleApplyChange
    \/ removeFile

SpecCorpus == InitCorpus /\ [][NextCorpus]_vars

----------------------------------------------------------------------------
(* Properties of the corpus (checked under SpecCorpus)                      *)

\* the records handleApplyChange's rule matches with the file name
Matching(fs, fileName) ==
    {i \in DOMAIN fs : fs[i].name = fileName \/ EndsWith(fs[i].name, <<"/">> \o fileName)}

\* the step is handleApplyChange(fileName, newContent)
AppliedStep(fileName, newContent) ==
    /\ messages' = Append(messages, Message(<<"apply-", now>>, "model", ApplyNotice(fileName),
                                            FALSE, <<>>, FALSE))
    /\ \E id \in RandomIds : files' = ApplyChange(files, fileName, newContent, id)

\* applying the same content to the same name again changes nothing
AppliedAgain(fileName, newContent) ==
    \A id \in RandomIds : ApplyChange(files', fileName, newContent, id) = files'

\* C25 (as stated): once a content is applied to a file name, applying it
\* again changes nothing, and exactly one record matches that name, holding
\* that content.
C25_ApplyTwice ==
    [][ \A fileName \in ApplyNames : \A newContent \in ApplyContents :
            AppliedStep(fileName, newContent) =>
                /\ AppliedAgain(fileName, newContent)
                /\ Cardinality(Matching(files', fileName)) = 1
                /\ \A i \in Matching(files', fileName) : files'[i].content = newContent ]_vars

\* C25 (amended): once a content is applied to a file name, applying it again
\* changes nothing and appends no record; the first record matching the name
\* holds the content; and when at most one record matched the name before,
\* exactly one matches it afterwards. Records of the same name that were
\* there before (the name is not unique across sources) stay, with their
\* own content.
C25_ApplyTwiceAmended ==
    [][ \A fileName \in ApplyNames : \A newContent \in ApplyContents :
            AppliedStep(fileName, newContent) =>
                LET before == Matching(files, fileName)
                    after == Matching(files', fileName)
                IN  /\ AppliedAgain(fileName, newContent)
                    /\ after # {}
                    /\ files'[CHOOSE i \in after : \A k \in after : i <= k].content = newContent
                    /\ Cardinality(after) = (IF before = {} THEN 1 ELSE Cardinality(before))
                    /\ Cardinality(before) <= 1 =>
                          /\ Cardinality(after) = 1
                          /\ \A i \in after : files'[i].content = newContent ]_vars

\* a change was applied twice to new.ts, which the corpus did not hold: one record has it
C25_Witness ==
    LET fileName == <<"new", ".", "ts">>
        notices == {k \in DOMAIN messages :
                       messages[k].id[1] = "apply-" /\ messages[k].text = ApplyNotice(fileName)}
    IN  /\ Cardinality(notices) = 2
        /\ Cardinality(Matching(files, fileName)) = 1
        /\ \A i \in Matching(files, fileName) : files[i].content \in ApplyContents

\* C26: no two records of the corpus share an id, so that removeFile(id)
\* deletes exactly one record.
C26_UniqueIds ==
    \A i, j \in DOMAIN files : i # j => files[i].id # files[j].id

Timers(q) == {i \in DOMAIN q : q[i].kind = "timer"}

\* the step is a handleGithubImport whose fetchGithubRepo threw
ImportFailedStep ==
    /\ \E i \in DOMAIN tasks : tasks[i].kind = "import"
    /\ Len(messages') = Len(messages) + 1
    /\ Len(messages'[Len(messages')].text) > 0
    /\ messages'[Len(messages')].text[1] = "Error: GitHub Import Failed. "

\* C27: when a GitHub import fails, the handler's finally block starts the
\* 2-second timer that resets the 'error' status to 'idle'.
C27_ErrorResetByTimer ==
    [][ ImportFailedStep => Cardinality(Timers(tasks')) = Cardinality(Timers(tasks)) + 1 ]_vars

\* C28: when an upload or an import completes its ingestion, the corpus it
\* leaves is the corpus as it was at that moment followed by the new records:
\* a removal or an applied change made meanwhile is kept.
C28_IngestionKeepsChanges ==
    [][ \A i \in DOMAIN tasks :
            ( /\ tasks[i].kind \in {"upload", "import"}
              /\ Len(tasks') = Len(tasks)
              /\ tasks'[i].kind \in {"auto", "importAuto"} ) =>
                /\ Len(files) <= Len(files')
                /\ SubSeq(files', 1, Len(files)) = files ]_vars

----------------------------------------------------------------------------
(* The response parser on arbitrary completions                             *)

MaxRawLen == 4

RawAtoms == {OPEN, CLOSE, " ", "x"}

\* the example of a completion with a reasoning block
TraceExample ==
    <<"intro", " ", OPEN, "reasoned", " ", "here", CLOSE, " ", "conclusion">>

\* the completions the backend answers a standard request with
RawTexts ==
    UNION {[1..n -> RawAtoms] : n \in 1..MaxRawLen} \cup {TraceExample}

ParserAttempt == Attempt({Resolved(t) : t \in RawTexts}) /\ UNCHANGED appVars

InitParser ==
    /\ InitApp
    /\ cpc = "idle"
    /\ retries = 0
    /\ log = <<>>
    /\ lastOutcome = NoOutcome
    /\ result = <<>>

NextParser ==
    \/ SetInput
    \/ handleSend
    \/ ParserAttempt
    \/ StandardResolved

SpecParser == InitParser /\ [][NextParser]_vars

\* a standard request has been answered and its turn is final
Answered == hpc = "idle" /\ calls # <<>> /\ calls[Len(calls)].phase = "standard"

\* the completion that was parsed, and the turn that shows it
RawCompletion == calls[Len(calls)].returned

AnsweredTurn == messages[Len(messages)]

\* C24: when the completion holds a reasoning block, the trace is the
\* trimmed text between the first opening tag and the first closing tag
\* after it, and the visible text is the completion without that block (tags
\* included), trimmed; when it holds none, the visible text is the
\* completion unchanged and there is no trace. For "intro <thinking>reasoned
\* here</thinking> conclusion" the visible text is "intro  conclusion" and
\* the trace "reasoned here".
C24_ParsedResponse ==
    Answered =>
        LET raw == RawCompletion
            n == Len(raw)
            turn == AnsweredTurn
        IN  /\ IF \E i, j \in 1..n : i < j /\ raw[i] = OPEN /\ raw[j] = CLOSE
               THEN \E i, j \in 1..n :
                       /\ i < j
                       /\ raw[i] = OPEN
                       /\ raw[j] = CLOSE
                       /\ \A k \in 1..(i - 1) : raw[k] # OPEN
                       /\ \A k \in (i + 1)..(j - 1) : raw[k] # CLOSE
                       /\ turn.hasThoughts
                       /\ turn.thoughts = Trim(SubSeq(raw, i + 1, j - 1))
                       /\ turn.text = Trim(SubSeq(raw, 1, i - 1) \o SubSeq(raw, j + 1, n))
               ELSE /\ ~turn.hasThoughts
                    /\ turn.text = raw
            /\ raw = TraceExample =>
                   /\ turn.text = <<"intro", " ", " ", "conclusion">>
                   /\ turn.thoughts = <<"reasoned", " ", "here">>
            /\ ~turn.isThinking

C24_Witness ==
    /\ Answered
    /\ RawCompletion = <<" ", OPEN, CLOSE, CLOSE>>
    /\ AnsweredTurn.text = <<CLOSE>>
    /\ AnsweredTurn.hasThoughts
    /\ AnsweredTurn.thoughts = <<>>

----------------------------------------------------------------------------
(* Mode switches and depth selections                                       *)

\* the config of the generateContent request of a call: thinkingConfig is set
\* when thinkingBudget > 0
RequestConfig(call) ==
    IF call.budget > 0
    THEN [systemInstruction |-> "SYSTEM_INSTRUCTION", hasThinkingConfig |-> TRUE,
          thinkingBudget |-> call.budget]
    ELSE [systemInstruction |-> "SYSTEM_INSTRUCTION", hasThinkingConfig |-> FALSE,
          thinkingBudget |-> 0]

ModeAttempt == Attempt({Resolved(<<"Use a mutex.">>)}) /\ UNCHANGED appVars

NextMode ==
    \/ handleModeChange
    \/ SelectDepth
    \/ SetInput
    \/ handleSend
    \/ ModeAttempt
    \/ DraftResolved
    \/ VerifyResolved
    \/ RefineResolved
    \/ StandardResolved

SpecMode == InitParser /\ [][NextMode]_vars

----------------------------------------------------------------------------
(* The GitHub service: commitToGithub, called by handleCommit of GithubModal *)

MaxCommits == 2

\* what the URL and token fields of the modal hold
CommitUrls == GithubUrls \cup { <<" ">> }

Tokens == { <<>>, <<"ghp_token">> }

\* the corpus handed to the modal as currentFiles
CommitCorpora == { <<>>, <<TraceFile>>, <<UtilsFile>>, <<UtilsFile, TraceFile, HelperFile>> }

\* currentFiles.filter(f => f.type === 'file').map(f => ({ path: f.name, content: f.content }))
filesToCommit(currentFiles) ==
    LET IsCode(f) == f.type = "file"
        code == SelectSeq(currentFiles, IsCode)
    IN  [k \in DOMAIN code |-> [path |-> code[k].name, content |-> code[k].content]]

\* the sha the API answers a created object with
BlobSha(content) == <<"blob", content>>

TreeSha(base, items) == <<"tree", base, items>>

CommitSha(tree, parent) == <<"commit", tree, parent>>

\* the tree items of the files, in the order of the files
treeItems(fs) ==
    [k \in DOMAIN fs |->
        [path |-> fs[k].path, mode |-> "100644", type |-> "blob", sha |-> BlobSha(fs[k].content)]]

\* a blob POST that has been issued and not yet answered
BlobRequest(call, index, file) ==
    [call |-> call, index |-> index, path |-> file.path, content |-> file.content]

\* commitToGithub throws and the catch block of handleCommit runs
CommitThrown(message) ==
    [modal EXCEPT !.status = "error", !.errorMessage = message, !.pc = "idle"]

nonCommitVars ==
    <<cpc, retries, log, lastOutcome, result, input, agentMode, thinkingBudget, agentState,
      messages, files, now, hpc, loc, calls, requests, graphData, graphDeps, tasks>>

\* handleCommit up to the first await of commitToGithub
handleCommit ==
    /\ modal.status # "loading"
    /\ modal.call < MaxCommits
    /\ \E url \in CommitUrls : \E token \in Tokens :
         modal' =
             IF Trim(url) = <<>> \/ Trim(token) = <<>>
             THEN [modal EXCEPT !.errorMessage = <<"URL and Token are required for committing.">>]
             ELSE IF Len(files) = 0
             THEN [modal EXCEPT !.errorMessage = <<"No files to commit.">>]
             ELSE IF ~parseGithubUrl(url).ok
             THEN [modal EXCEPT !.status = "error", !.errorMessage = <<"Invalid GitHub URL">>,
                                !.call = modal.call + 1]
             ELSE [modal EXCEPT !.status = "loading", !.errorMessage = <<>>, !.pc = "repo",
                                !.call = modal.call + 1, !.files = filesToCommit(files),
                                !.branch = "", !.lastCommitSha = <<>>, !.created = {},
                                !.treeSha = <<>>, !.commitSha = <<>>]
    /\ UNCHANGED github
    /\ UNCHANGED nonCommitVars

\* 1. GET /repos/owner/repo answers: default_branch, or undefined in an error body
RepoFetched ==
    /\ modal.pc = "repo"
    /\ \E ok \in BOOLEAN :
         modal' = [modal EXCEPT !.branch = IF ok THEN "main" ELSE "undefined", !.pc = "branch"]
    /\ UNCHANGED github
    /\ UNCHANGED nonCommitVars

\* 1. GET /branches/branch answers; when ok, 2. the blob POSTs are all issued
BranchFetched ==
    /\ modal.pc = "branch"
    /\ \E ok \in BOOLEAN :
         /\ ok => modal.branch = "main"
         /\ IF ok
            THEN /\ modal' = [modal EXCEPT !.lastCommitSha = github.ref,
                                           !.pc = IF modal.files = <<>> THEN "tree" ELSE "blobs"]
                 /\ github' = [github EXCEPT !.inflight =
                                  @ \cup {BlobRequest(modal.call, k, modal.files[k]) :
                                             k \in DOMAIN modal.files}]
            ELSE /\ modal' = CommitThrown(<<"Failed to fetch branch info">>)
                 /\ UNCHANGED github
    /\ UNCHANGED nonCommitVars

\* a mistaken step 2: the answer to a blob POST is not checked
BlobSettled_Unchecked ==
    /\ \E r \in github.inflight : \E ok \in BOOLEAN :
         /\ github' = [github EXCEPT !.inflight = @ \ {r},
                                     !.blobs = IF ok THEN @ \cup {BlobSha(r.content)} ELSE @]
         /\ IF r.call = modal.call /\ modal.pc = "blobs"
            THEN LET created == modal.created \cup {r.index}
                 IN  modal' = [modal EXCEPT !.created = created,
                                            !.pc = IF created = DOMAIN modal.files
                                                   THEN "tree"
                                                   ELSE "blobs"]
            ELSE UNCHANGED modal
    /\ UNCHANGED nonCommitVars

\* 2. a blob POST is answered; Promise.all resolves when every one was created and
\* rejects with the first that failed, the others running on
BlobSettled ==
    /\ \E r \in github.inflight : \E ok \in BOOLEAN :
         /\ github' = [github EXCEPT !.inflight = @ \ {r},
                                     !.blobs = IF ok THEN @ \cup {BlobSha(r.content)} ELSE @]
         /\ IF r.call = modal.call /\ modal.pc = "blobs"
            THEN IF ok
                 THEN LET created == modal.created \cup {r.index}
                      IN  modal' = [modal EXCEPT !.created = created,
                                                 !.pc = IF created = DOMAIN modal.files
                                                        THEN "tree"
                                                        ELSE "blobs"]
                 ELSE modal' = CommitThrown(<<"Failed to create blob for ">> \o r.path)
            ELSE UNCHANGED modal
    /\ UNCHANGED nonCommitVars

\* 3. POST /git/trees is answered
TreeCreated ==
    /\ modal.pc = "tree"
    /\ \E ok \in BOOLEAN :
         IF ok
         THEN LET sha == TreeSha(modal.lastCommitSha[2], treeItems(modal.files))
              IN  /\ github' = [github EXCEPT !.trees = @ \cup {sha}]
                  /\ modal' = [modal EXCEPT !.treeSha = sha, !.pc = "commit"]
         ELSE /\ modal' = CommitThrown(<<"Failed to create tree">>)
              /\ UNCHANGED github
    /\ UNCHANGED nonCommitVars

\* 4. POST /git/commits is answered
CommitCreated ==
    /\ modal.pc = "commit"
    /\ \E ok \in BOOLEAN :
         IF ok
         THEN LET sha == CommitSha(modal.treeSha, modal.lastCommitSha)
              IN  /\ github' = [github EXCEPT !.commits = @ \cup {sha}]
                  /\ modal' = [modal EXCEPT !.commitSha = sha, !.pc = "ref"]
         ELSE /\ modal' = CommitThrown(<<"Failed to create commit">>)
              /\ UNCHANGED github
    /\ UNCHANGED nonCommitVars

\* 5. PATCH /git/refs/heads/branch is answered; commitToGithub returns and handleCommit
\* shows the commit
RefUpdated ==
    /\ modal.pc = "ref"
    /\ \E ok \in BOOLEAN :
         IF ok
         THEN /\ github' = [github EXCEPT !.ref = modal.commitSha]
              /\ modal' = [modal EXCEPT !.status = "success", !.pc = "idle",
                                        !.successUrl = <<"html_url of commit ", modal.call>>]
         ELSE /\ modal' = CommitThrown(<<"Failed to update reference">>)
              /\ UNCHANGED github
    /\ UNCHANGED nonCommitVars

InitCommit ==
    /\ input = <<>>
    /\ agentMode = "ARCHITECT"
    /\ thinkingBudget = DefaultBudget
    /\ agentState = "idle"
    /\ messages = <<DEFAULT_MESSAGE>>
    /\ files \in CommitCorpora
    /\ now = 1
    /\ hpc = "idle"
    /\ loc = NoLoc
    /\ calls = <<>>
    /\ requests = 0
    /\ graphData = [nodes |-> <<>>, links |-> <<>>]
    /\ graphDeps = <<>>
    /\ tasks = <<>>
    /\ github = InitialRemote
    /\ modal = ClosedModal
    /\ cpc = "idle"
    /\ retries = 0
    /\ log = <<>>
    /\ lastOutcome = NoOutcome
    /\ result = <<>>

NextCommit ==
    \/ handleCommit
    \/ RepoFetched
    \/ BranchFetched
    \/ BlobSettled
    \/ TreeCreated
    \/ CommitCreated
    \/ RefUpdated

SpecCommit == InitCommit /\ [][NextCommit]_vars

\* every object of the commit in progress exists in the repository
AllCreated ==
    /\ \A k \in DOMAIN modal.files : BlobSha(modal.files[k].content) \in github.blobs
    /\ modal.created = DOMAIN modal.files
    /\ modal.treeSha = TreeSha(modal.lastCommitSha[2], treeItems(modal.files))
    /\ modal.treeSha \in github.trees
    /\ modal.commitSha = CommitSha(modal.treeSha, modal.lastCommitSha)
    /\ modal.commitSha \in github.commits

\* C30: the branch reference changes only in the last step of a call, when
\* every blob, the tree and the commit of that call exist, and it becomes
\* that commit; the tree is requested only when every blob exists and the
\* commit only when the tree exists; and a call that throws leaves the
\* reference as it is and has no step left to run.
C30_RefUpdatedLast ==
    [][ /\ github'.ref # github.ref =>
              /\ modal.status = "loading"
              /\ modal.pc = "ref"
              /\ AllCreated
              /\ github'.ref = modal.commitSha
              /\ modal'.status = "success"
        /\ (modal.pc # "tree" /\ modal'.pc = "tree") =>
              \A k \in DOMAIN modal'.files : BlobSha(modal'.files[k].content) \in github'.blobs
        /\ (modal.status = "loading" /\ modal'.status = "error") =>
              /\ github'.ref = github.ref
              /\ modal'.pc = "idle" ]_vars

\* a commit of two code files succeeded after an earlier call had failed
C30_Witness ==
    /\ modal.status = "success"
    /\ modal.call = 2
    /\ Len(modal.files) = 2
    /\ github.ref = modal.commitSha
    /\ github.ref # InitialHead
    /\ Cardinality(github.commits) = 1

====
